---------------------------- MODULE Spec2Model ----------------------------
(***************************************************************************)
(* A model of go-rison: the Rison decoder (decoder.go), the Rison encoder  *)
(* (encoder.go) and the encoding/json calls both are built on.             *)
(*                                                                         *)
(* A byte is a one-character string ("a", "(", "\t"); a byte that is not   *)
(* printable ASCII is written by its hexadecimal name ("xFF").  A []byte   *)
(* or a Go string is a sequence of bytes.                                  *)
(***************************************************************************)
EXTENDS Integers, Sequences, FiniteSets, TLC

VARIABLES pc, mode, data, value, seed, res, res2

vars == <<pc, mode, data, value, seed, res, res2>>

(***************************************************************************)
(* Bytes                                                                   *)
(***************************************************************************)

\* The printable ASCII characters in code order: Ascii[i] has code 31 + i
\* (the grave accent, code 96, is written x60).
Ascii ==
  << " ", "!", "\"", "#", "$", "%", "&", "'", "(", ")", "*", "+", ",", "-",
     ".", "/", "0", "1", "2", "3", "4", "5", "6", "7", "8", "9", ":", ";",
     "<", "=", ">", "?", "@", "A", "B", "C", "D", "E", "F", "G", "H", "I",
     "J", "K", "L", "M", "N", "O", "P", "Q", "R", "S", "T", "U", "V", "W",
     "X", "Y", "Z", "[", "\\", "]", "^", "_", "x60", "a", "b", "c", "d", "e",
     "f", "g", "h", "i", "j", "k", "l", "m", "n", "o", "p", "q", "r", "s",
     "t", "u", "v", "w", "x", "y", "z", "{", "|", "}", "~" >>

\* The other bytes the model uses, with their codes.
OtherBytes ==
  << <<"x00", 0>>, <<"x01", 1>>, <<"x02", 2>>, <<"x03", 3>>, <<"x04", 4>>,
     <<"x05", 5>>, <<"x06", 6>>, <<"x07", 7>>, <<"x08", 8>>, <<"\t", 9>>,
     <<"\n", 10>>, <<"x0B", 11>>, <<"\f", 12>>, <<"\r", 13>>, <<"x0E", 14>>,
     <<"x0F", 15>>, <<"x10", 16>>, <<"x11", 17>>, <<"x12", 18>>, <<"x13", 19>>,
     <<"x14", 20>>, <<"x15", 21>>, <<"x16", 22>>, <<"x17", 23>>, <<"x18", 24>>,
     <<"x19", 25>>, <<"x1A", 26>>, <<"x1B", 27>>, <<"x1C", 28>>, <<"x1D", 29>>,
     <<"x1E", 30>>, <<"x1F", 31>>, <<"x7F", 127>>, <<"x80", 128>>, <<"xA9", 169>>,
     <<"xC3", 195>>, <<"xE0", 224>>, <<"xFD", 253>>, <<"xFE", 254>>, <<"xFF", 255>> >>

ByteSet ==
  {Ascii[i] : i \in DOMAIN Ascii} \cup {OtherBytes[i][1] : i \in DOMAIN OtherBytes}

\* The code of byte c (Go: the byte's integer value).
Ord(c) ==
  IF \E i \in DOMAIN Ascii : Ascii[i] = c
    THEN 31 + (CHOOSE i \in DOMAIN Ascii : Ascii[i] = c)
    ELSE OtherBytes[CHOOSE i \in DOMAIN OtherBytes : OtherBytes[i][1] = c][2]

\* The model has a byte with code n.
HasChr(n) == n \in 32 .. 126 \/ \E i \in DOMAIN OtherBytes : OtherBytes[i][2] = n

\* The byte with code n.
Chr(n) ==
  IF n \in 32 .. 126 THEN Ascii[n - 31]
  ELSE OtherBytes[CHOOSE i \in DOMAIN OtherBytes : OtherBytes[i][2] = n][1]

Digits == {"0", "1", "2", "3", "4", "5", "6", "7", "8", "9"}

DigitVal(c) == Ord(c) - 48

HexDigits == <<"0", "1", "2", "3", "4", "5", "6", "7", "8", "9", "a", "b", "c", "d", "e", "f">>

\* All sequences over alphabet A of length at most n.
Texts(A, n) == UNION {[1..k -> A] : k \in 0..n}

\* s[from..to] (1-based, inclusive); the empty sequence when from > to.
Slice(s, from, to) == [i \in 1..(to - from + 1) |-> s[from + i - 1]]

\* strings.IndexByte(set, c) >= 0
IndexByteIn(set, c) == \E i \in DOMAIN set : set[i] = c

\* Go's string comparison a < b: byte-wise lexical order.
RECURSIVE StrLess(_, _)
StrLess(a, b) ==
  IF b = <<>> THEN FALSE
  ELSE IF a = <<>> THEN TRUE
  ELSE IF Ord(a[1]) # Ord(b[1]) THEN Ord(a[1]) < Ord(b[1])
  ELSE StrLess(Tail(a), Tail(b))

(***************************************************************************)
(* rison.go: the character classes and the modes                           *)
(***************************************************************************)

notIDChar == <<" ", "'", "!", ":", "(", ")", ",", "*", "@", "$">>

notIDStart == notIDChar \o <<"0", "1", "2", "3", "4", "5", "6", "7", "8", "9", "-">>

parserWhitespace == <<" ", "\t", "\n", "\r", "\f">>

Rison == "Rison"

ORison == "ORison"

ARison == "ARison"

Modes == {Rison, ORison, ARison}

(***************************************************************************)
(* unicode/utf8.Valid                                                      *)
(***************************************************************************)

IsCont(c) == Ord(c) >= 128 /\ Ord(c) <= 191

\* The number of bytes of the well-formed UTF-8 sequence that starts s at i
\* (0 when there is none).
Utf8Len(s, i) ==
  LET b == Ord(s[i])
      n == Len(s)
      c(k) == Ord(s[i + k])
  IN  IF b < 128 THEN 1
      ELSE IF b >= 194 /\ b <= 223
        THEN IF i + 1 <= n /\ IsCont(s[i + 1]) THEN 2 ELSE 0
      ELSE IF b >= 224 /\ b <= 239
        THEN IF i + 2 <= n /\ IsCont(s[i + 1]) /\ IsCont(s[i + 2])
                /\ (b = 224 => c(1) >= 160) /\ (b = 237 => c(1) <= 159)
             THEN 3 ELSE 0
      ELSE IF b >= 240 /\ b <= 244
        THEN IF i + 3 <= n /\ IsCont(s[i + 1]) /\ IsCont(s[i + 2]) /\ IsCont(s[i + 3])
                /\ (b = 240 => c(1) >= 144) /\ (b = 244 => c(1) <= 143)
             THEN 4 ELSE 0
      ELSE 0

RECURSIVE Utf8ValidFrom(_, _)
Utf8ValidFrom(s, i) ==
  IF i > Len(s) THEN TRUE
  ELSE LET k == Utf8Len(s, i)
       IN  k > 0 /\ Utf8ValidFrom(s, i + k)

utf8Valid(s) == Utf8ValidFrom(s, 1)

(***************************************************************************)
(* float64 and its decimal text (strconv.ParseFloat, strconv.FormatFloat   *)
(* with precision -1, as encoding/json calls them).                        *)
(*                                                                         *)
(* A float64 is held as the shortest decimal that denotes it:              *)
(* [neg, d, dp] is (-1)^neg * 0.d[1]d[2]..d[n] * 10^dp, d without leading  *)
(* or trailing zeros, and zero is d = <<>>, dp = 0.  The model is exact    *)
(* for decimals of at most 15 significant digits outside the subnormal     *)
(* range, which is where a decimal and its float64 determine each other.   *)
(***************************************************************************)

RECURSIVE StripLeadingZeros(_)
StripLeadingZeros(d) ==
  IF d # <<>> /\ d[1] = 0 THEN StripLeadingZeros(Tail(d)) ELSE d

RECURSIVE StripTrailingZeros(_)
StripTrailingZeros(d) ==
  IF d # <<>> /\ d[Len(d)] = 0 THEN StripTrailingZeros(SubSeq(d, 1, Len(d) - 1)) ELSE d

\* Digit sequences compared as decimal fractions 0.a < 0.b.
RECURSIVE FracLess(_, _)
FracLess(a, b) ==
  IF b = <<>> THEN FALSE
  ELSE IF a = <<>> THEN TRUE
  ELSE IF a[1] # b[1] THEN a[1] < b[1]
  ELSE FracLess(Tail(a), Tail(b))

\* math.MaxFloat64 = 0.17976931348623157e309; a decimal above
\* 0.17976931348623158e309 rounds to +Inf.
MaxFloatDigits == <<1, 7, 9, 7, 6, 9, 3, 1, 3, 4, 8, 6, 2, 3, 1, 5, 8>>

\* Half the smallest subnormal, 0.24703282292062327e-323: a decimal at or
\* below it rounds to zero.
MinFloatDigits == <<2, 4, 7, 0, 3, 2, 8, 2, 2, 9, 2, 0, 6, 2, 3, 2, 7>>

FloatOverflows(d, dp) ==
  d # <<>> /\ (dp > 309 \/ (dp = 309 /\ FracLess(MaxFloatDigits, d)))

FloatUnderflows(d, dp) ==
  d # <<>> /\ (dp < -323 \/ (dp = -323 /\ ~FracLess(MinFloatDigits, d)))

\* The digits s[i..] up to the first non-digit, as numbers.
RECURSIVE DigitRun(_, _)
DigitRun(s, i) ==
  IF i <= Len(s) /\ s[i] \in Digits
    THEN <<DigitVal(s[i])>> \o DigitRun(s, i + 1)
    ELSE <<>>

\* strconv's readFloat: the exponent is accumulated while it is below 10000.
RECURSIVE ExpValue(_, _)
ExpValue(ds, acc) ==
  IF ds = <<>> THEN acc
  ELSE ExpValue(Tail(ds), IF acc < 10000 THEN acc * 10 + ds[1] ELSE acc)

\* The exponent written at t[i]: 0 when no 'e' or 'E' stands there.
ExpAt(t, i) ==
  IF ~(i <= Len(t) /\ t[i] \in {"e", "E"}) THEN 0
  ELSE IF i + 1 <= Len(t) /\ t[i + 1] = "-" THEN 0 - ExpValue(DigitRun(t, i + 2), 0)
  ELSE IF i + 1 <= Len(t) /\ t[i + 1] = "+" THEN ExpValue(DigitRun(t, i + 2), 0)
  ELSE ExpValue(DigitRun(t, i + 1), 0)

\* strconv.ParseFloat(t, 64) of a text t that is a JSON number.
ParseFloat(t) ==
  LET Round(neg, d, dp) ==
        IF d = <<>> \/ FloatUnderflows(d, dp)
          THEN [ok |-> TRUE, f |-> [neg |-> neg, d |-> <<>>, dp |-> 0]]
        ELSE IF FloatOverflows(d, dp)
          THEN [ok |-> FALSE, f |-> [neg |-> neg, d |-> <<>>, dp |-> 0]]
        ELSE [ok |-> TRUE, f |-> [neg |-> neg, d |-> d, dp |-> dp]]
      Mantissa(neg, ip, all, lead, e) ==
        Round(neg, StripTrailingZeros(lead), Len(ip) - (Len(all) - Len(lead)) + e)
      Exponent(neg, ip, fp, i2) ==
        Mantissa(neg, ip, ip \o fp, StripLeadingZeros(ip \o fp), ExpAt(t, i2))
      Fraction(neg, ip, i1, fp) ==
        IF i1 <= Len(t) /\ t[i1] = "."
          THEN Exponent(neg, ip, fp, i1 + 1 + Len(fp))
          ELSE Exponent(neg, ip, <<>>, i1)
      Integer(neg, i0, ip) == Fraction(neg, ip, i0 + Len(ip), DigitRun(t, i0 + Len(ip) + 1))
  IN  Integer(t[1] = "-", IF t[1] = "-" THEN 2 ELSE 1,
              DigitRun(t, IF t[1] = "-" THEN 2 ELSE 1))

DigitChar(n) == HexDigits[n + 1]

DigitChars(d) == [i \in DOMAIN d |-> DigitChar(d[i])]

Zeros(n) == [i \in 1..n |-> "0"]

\* A non-negative integer in decimal, at least minDigits digits.
RECURSIVE IntText(_, _)
IntText(n, minDigits) ==
  IF n < 10 /\ minDigits <= 1 THEN <<DigitChar(n)>>
  ELSE IntText(n \div 10, minDigits - 1) \o <<DigitChar(n % 10)>>

\* strconv's %e with the shortest digits: d.ddde+XX, two exponent digits at least.
FmtE(f) ==
  LET Text(n, exp, ch) ==
        (IF f.neg THEN <<"-">> ELSE <<>>)
        \o (IF n = 0 THEN <<"0">> ELSE <<ch[1]>>)
        \o (IF n > 1 THEN <<".">> \o SubSeq(ch, 2, n) ELSE <<>>)
        \o <<"e">>
        \o (IF exp < 0 THEN <<"-">> ELSE <<"+">>)
        \o IntText(IF exp < 0 THEN 0 - exp ELSE exp, 2)
  IN  Text(Len(f.d), IF Len(f.d) = 0 THEN 0 ELSE f.dp - 1, DigitChars(f.d))

\* strconv's %f with the shortest digits.
FmtF(f) ==
  LET Text(n, ch, pr) ==
        (IF f.neg THEN <<"-">> ELSE <<>>)
        \o (IF f.dp > 0
              THEN (IF n <= f.dp THEN ch \o Zeros(f.dp - n) ELSE SubSeq(ch, 1, f.dp))
              ELSE <<"0">>)
        \o (IF pr > 0
              THEN <<".">> \o [i \in 1..pr |->
                                 IF f.dp + i >= 1 /\ f.dp + i <= n THEN ch[f.dp + i] ELSE "0"]
              ELSE <<>>)
  IN  Text(Len(f.d), DigitChars(f.d), IF Len(f.d) - f.dp > 0 THEN Len(f.d) - f.dp ELSE 0)

\* encoding/json's floatEncoder: %f, but %e when |f| < 1e-6 or |f| >= 1e21,
\* and then e-0X is written e-X.
MarshalFloat(f) ==
  LET CleanExp(b, n) ==
        IF n >= 4 /\ b[n - 3] = "e" /\ b[n - 2] = "-" /\ b[n - 1] = "0"
          THEN SubSeq(b, 1, n - 2) \o <<b[n]>>
          ELSE b
  IN  IF f.d # <<>> /\ (f.dp <= -6 \/ f.dp >= 22)
        THEN CleanExp(FmtE(f), Len(FmtE(f)))
        ELSE FmtF(f)

(***************************************************************************)
(* Go values, as encoding/json produces and consumes them through          *)
(* interface{}: nil, bool, float64, string, []interface{} and              *)
(* map[string]interface{}.  A JSON document is the same tree with an       *)
(* object held as the sequence of its <<key, value>> pairs in text order.  *)
(***************************************************************************)

GoNil == [k |-> "nil"]

GoBool(b) == [k |-> "bool", v |-> b]

GoFloat(f) == [k |-> "float64", v |-> f]

GoString(s) == [k |-> "string", v |-> s]

GoSlice(a) == [k |-> "slice", v |-> a]

GoMap(m) == [k |-> "map", v |-> m]

\* Values json.Unmarshal never builds, which a caller may hand to the encoder:
\* a func, a uintptr, a map[int]interface{} and a map[float64]interface{} (m
\* maps the keys to the elements; a float64 key is held as its number of
\* tenths).
GoFunc == [k |-> "func"]

GoUintptr(n) == [k |-> "uintptr", v |-> n]

GoIntMap(m) == [k |-> "map[int]", v |-> m]

GoFloatMap(m) == [k |-> "map[float64]", v |-> m]

JObject(pairs) == [k |-> "object", v |-> pairs]

\* The keys of set S in ascending byte-wise order.
RECURSIVE SortedKeys(_)
SortedKeys(S) ==
  IF S = {} THEN <<>>
  ELSE LET m == CHOOSE x \in S : \A y \in S \ {x} : StrLess(x, y)
       IN  <<m>> \o SortedKeys(S \ {m})

(***************************************************************************)
(* encoding/json: Marshal                                                  *)
(***************************************************************************)

\* One byte of a string, as encodeState.string writes it (HTML escaping on).
JSONEscapeByte(c) ==
  LET b == Ord(c)
  IN  IF c \in {"\"", "\\"} THEN <<"\\", c>>
      ELSE IF c = "x08" THEN <<"\\", "b">>
      ELSE IF c = "\f" THEN <<"\\", "f">>
      ELSE IF c = "\n" THEN <<"\\", "n">>
      ELSE IF c = "\r" THEN <<"\\", "r">>
      ELSE IF c = "\t" THEN <<"\\", "t">>
      ELSE IF b < 32 \/ c \in {"<", ">", "&"}
        THEN <<"\\", "u", "0", "0", HexDigits[(b \div 16) + 1], HexDigits[(b % 16) + 1]>>
      ELSE <<c>>

RECURSIVE JSONEscape(_)
JSONEscape(s) ==
  IF s = <<>> THEN <<>> ELSE JSONEscapeByte(s[1]) \o JSONEscape(Tail(s))

\* json.Marshal of a string that is valid UTF-8.
MarshalString(s) == <<"\"">> \o JSONEscape(s) \o <<"\"">>

\* json.Marshal(v) fails with an UnsupportedTypeError: v holds a func or a map
\* whose keys are neither strings nor integers.
RECURSIVE UnsupportedType(_)
UnsupportedType(v) ==
  CASE v.k \in {"func", "map[float64]"} -> TRUE
    [] v.k = "slice" -> \E i \in DOMAIN v.v : UnsupportedType(v.v[i])
    [] v.k \in {"map", "map[int]"} -> \E x \in DOMAIN v.v : UnsupportedType(v.v[x])
    [] OTHER -> FALSE

\* The map json.Marshal writes for a map[int]: each key by its decimal text.
TextKeyed(m) ==
  [t \in {IntText(x, 1) : x \in DOMAIN m} |-> m[CHOOSE x \in DOMAIN m : IntText(x, 1) = t]]

RECURSIVE MarshalValue(_)
RECURSIVE MarshalElems(_)
RECURSIVE MarshalPairs(_, _)
\* json.Marshal(v); a map's keys are written sorted.
MarshalValue(v) ==
  CASE v.k = "nil" -> <<"n", "u", "l", "l">>
    [] v.k = "bool" -> IF v.v THEN <<"t", "r", "u", "e">> ELSE <<"f", "a", "l", "s", "e">>
    [] v.k = "float64" -> MarshalFloat(v.v)
    [] v.k = "string" -> MarshalString(v.v)
    [] v.k = "slice" -> <<"[">> \o MarshalElems(v.v) \o <<"]">>
    [] v.k = "map" -> <<"{">> \o MarshalPairs(v.v, SortedKeys(DOMAIN v.v)) \o <<"}">>
    [] v.k = "uintptr" -> IntText(v.v, 1)
    [] v.k = "map[int]" ->
         <<"{">> \o MarshalPairs(TextKeyed(v.v), SortedKeys(DOMAIN TextKeyed(v.v))) \o <<"}">>

MarshalElems(a) ==
  IF a = <<>> THEN <<>>
  ELSE MarshalValue(a[1])
       \o (IF Len(a) > 1 THEN <<",">> \o MarshalElems(Tail(a)) ELSE <<>>)

MarshalPairs(m, keys) ==
  IF keys = <<>> THEN <<>>
  ELSE MarshalString(keys[1]) \o <<":">> \o MarshalValue(m[keys[1]])
       \o (IF Len(keys) > 1 THEN <<",">> \o MarshalPairs(m, Tail(keys)) ELSE <<>>)

(***************************************************************************)
(* encoding/json: Unmarshal into interface{}                               *)
(***************************************************************************)

JSONSpace == {" ", "\t", "\n", "\r"}

RECURSIVE SkipSpace(_, _)
SkipSpace(s, i) ==
  IF i <= Len(s) /\ s[i] \in JSONSpace THEN SkipSpace(s, i + 1) ELSE i

JFail == [ok |-> FALSE, v |-> GoNil, i |-> 0]

JOk(v, i) == [ok |-> TRUE, v |-> v, i |-> i]

HasAt(s, i, lit) ==
  i + Len(lit) - 1 <= Len(s) /\ \A j \in DOMAIN lit : s[i + j - 1] = lit[j]

RECURSIVE SkipDigits(_, _)
SkipDigits(s, i) ==
  IF i <= Len(s) /\ s[i] \in Digits THEN SkipDigits(s, i + 1) ELSE i

\* The index after the JSON number that starts at s[i]; 0 when there is none.
ScanNumber(s, i) ==
  LET n == Len(s)
      Exponent(c, e1) ==
        IF c = 0 THEN 0
        ELSE IF c <= n /\ s[c] \in {"e", "E"}
          THEN (IF SkipDigits(s, e1) > e1 THEN SkipDigits(s, e1) ELSE 0)
        ELSE c
      Signed(c) ==
        Exponent(c, IF c # 0 /\ c + 1 <= n /\ s[c + 1] \in {"+", "-"} THEN c + 2 ELSE c + 1)
      Fraction(b) ==
        Signed(IF b = 0 THEN 0
               ELSE IF b <= n /\ s[b] = "."
                 THEN (IF SkipDigits(s, b + 1) > b + 1 THEN SkipDigits(s, b + 1) ELSE 0)
               ELSE b)
      Integer(a) ==
        Fraction(IF a <= n /\ s[a] = "0" THEN a + 1
                 ELSE IF a <= n /\ s[a] \in Digits THEN SkipDigits(s, a)
                 ELSE 0)
  IN  Integer(IF i <= n /\ s[i] = "-" THEN i + 1 ELSE i)

HexVal(c) ==
  IF c \in Digits THEN DigitVal(c)
  ELSE IF c \in {"a", "b", "c", "d", "e", "f"} THEN Ord(c) - 87
  ELSE IF c \in {"A", "B", "C", "D", "E", "F"} THEN Ord(c) - 55
  ELSE -1

\* The string whose opening quote is at s[i - 1]: its bytes up to the closing
\* quote, escapes undone.  \uXXXX is modelled for the code points below 128.
RECURSIVE ScanString(_, _, _)
ScanString(s, i, acc) ==
  IF i > Len(s) THEN JFail
  ELSE IF s[i] = "\"" THEN JOk(GoString(acc), i + 1)
  ELSE IF Ord(s[i]) < 32 THEN JFail
  ELSE IF s[i] # "\\" THEN ScanString(s, i + 1, Append(acc, s[i]))
  ELSE IF i + 1 > Len(s) THEN JFail
  ELSE LET c == s[i + 1]
       IN  IF c \in {"\"", "\\", "/"} THEN ScanString(s, i + 2, Append(acc, c))
           ELSE IF c = "b" THEN ScanString(s, i + 2, Append(acc, "x08"))
           ELSE IF c = "f" THEN ScanString(s, i + 2, Append(acc, "\f"))
           ELSE IF c = "n" THEN ScanString(s, i + 2, Append(acc, "\n"))
           ELSE IF c = "r" THEN ScanString(s, i + 2, Append(acc, "\r"))
           ELSE IF c = "t" THEN ScanString(s, i + 2, Append(acc, "\t"))
           ELSE IF c = "u" /\ i + 5 <= Len(s)
                   /\ \A j \in 2..5 : HexVal(s[i + j]) >= 0
             THEN LET r == HexVal(s[i + 2]) * 4096 + HexVal(s[i + 3]) * 256
                           + HexVal(s[i + 4]) * 16 + HexVal(s[i + 5])
                  IN  IF r < 128 /\ HasChr(r)
                        THEN ScanString(s, i + 6, Append(acc, Chr(r)))
                        ELSE JFail
           ELSE JFail

RECURSIVE ScanValue(_, _)
RECURSIVE ScanElems(_, _, _)
RECURSIVE ScanPairs(_, _, _)
\* One JSON value starting at s[i] (leading space skipped) and the index after it.
ScanValue(s, i0) ==
  LET Number(j, f) == IF j = 0 \/ ~f.ok THEN JFail ELSE JOk(GoFloat(f.f), j)
      Open(i, j, close, empty) ==
        IF j <= Len(s) /\ s[j] = close THEN JOk(empty, j + 1)
        ELSE IF close = "]" THEN ScanElems(s, i + 1, <<>>)
        ELSE ScanPairs(s, i + 1, <<>>)
      At1(i) ==
        IF i > Len(s) THEN JFail
        ELSE IF HasAt(s, i, <<"n", "u", "l", "l">>) THEN JOk(GoNil, i + 4)
        ELSE IF HasAt(s, i, <<"t", "r", "u", "e">>) THEN JOk(GoBool(TRUE), i + 4)
        ELSE IF HasAt(s, i, <<"f", "a", "l", "s", "e">>) THEN JOk(GoBool(FALSE), i + 5)
        ELSE IF s[i] = "\"" THEN ScanString(s, i + 1, <<>>)
        ELSE IF s[i] = "[" THEN Open(i, SkipSpace(s, i + 1), "]", GoSlice(<<>>))
        ELSE IF s[i] = "{" THEN Open(i, SkipSpace(s, i + 1), "}", JObject(<<>>))
        ELSE IF s[i] = "-" \/ s[i] \in Digits
          THEN Number(ScanNumber(s, i), ParseFloat(Slice(s, i, ScanNumber(s, i) - 1)))
        ELSE JFail
  IN  At1(SkipSpace(s, i0))

ScanElems(s, i, acc) ==
  LET After(r, j) ==
        IF ~r.ok \/ j > Len(s) THEN JFail
        ELSE IF s[j] = "]" THEN JOk(GoSlice(Append(acc, r.v)), j + 1)
        ELSE IF s[j] = "," THEN ScanElems(s, j + 1, Append(acc, r.v))
        ELSE JFail
      Elem(r) == After(r, SkipSpace(s, r.i))
  IN  Elem(ScanValue(s, i))

ScanPairs(s, i0, acc) ==
  LET After(kr, vr, j) ==
        IF ~vr.ok \/ j > Len(s) THEN JFail
        ELSE IF s[j] = "}" THEN JOk(JObject(Append(acc, <<kr.v.v, vr.v>>)), j + 1)
        ELSE IF s[j] = "," THEN ScanPairs(s, j + 1, Append(acc, <<kr.v.v, vr.v>>))
        ELSE JFail
      Val(kr, vr) == After(kr, vr, SkipSpace(s, vr.i))
      Colon(kr, c) ==
        Val(kr, IF kr.ok /\ c <= Len(s) /\ s[c] = ":" THEN ScanValue(s, c + 1) ELSE JFail)
      Key(kr) == Colon(kr, SkipSpace(s, kr.i))
      At1(i) == Key(IF i <= Len(s) /\ s[i] = "\"" THEN ScanString(s, i + 1, <<>>) ELSE JFail)
  IN  At1(SkipSpace(s, i0))

\* The JSON document in text s: one value and nothing but space after it.
ParseJSON(s) ==
  LET Whole(r) == IF r.ok /\ SkipSpace(s, r.i) > Len(s) THEN r ELSE JFail
  IN  Whole(ScanValue(s, 1))

RECURSIVE ToGo(_)

\* An object's map with the first of the pairs with the same key giving the
\* key's value.
ToGoFirst(t) ==
  CASE t.k = "slice" -> GoSlice([i \in DOMAIN t.v |-> ToGo(t.v[i])])
    [] t.k = "object" ->
         GoMap([key \in {t.v[i][1] : i \in DOMAIN t.v} |->
                  LET first == CHOOSE i \in DOMAIN t.v :
                                 /\ t.v[i][1] = key
                                 /\ \A j \in DOMAIN t.v : t.v[j][1] = key => i <= j
                  IN  ToGo(t.v[first][2])])
    [] OTHER -> t

\* The Go value of a JSON document: an object becomes a map, the last of the
\* pairs with the same key giving the key's value.
ToGo(t) ==
  CASE t.k = "slice" -> GoSlice([i \in DOMAIN t.v |-> ToGo(t.v[i])])
    [] t.k = "object" ->
         GoMap([key \in {t.v[i][1] : i \in DOMAIN t.v} |->
                  LET last == CHOOSE i \in DOMAIN t.v :
                                /\ t.v[i][1] = key
                                /\ \A j \in DOMAIN t.v : t.v[j][1] = key => j <= i
                  IN  ToGo(t.v[last][2])])
    [] OTHER -> t

\* json.Unmarshal(s, &v) with v an interface{}.
Unmarshal(s) ==
  LET Value(r) == IF r.ok THEN [ok |-> TRUE, v |-> ToGo(r.v)] ELSE [ok |-> FALSE, v |-> GoNil]
  IN  Value(ParseJSON(s))

(***************************************************************************)
(* decoder.go                                                              *)
(*                                                                         *)
(* Indices are Go's: p.index and every i below count from 0, and At(s, i)  *)
(* is Go's s[i].  An error is NilError or a ParseError record; its Err is  *)
(* the format of the errorf call with its arguments.                       *)
(***************************************************************************)

\* Go's s[i].
At(s, i) == s[i + 1]

\* Go's s[a:b].
GoSub(s, a, b) == Slice(s, a + 1, b)

NilError == [nil |-> TRUE]

\* The error json.Unmarshal returns.
JSONError == [nil |-> FALSE, json |-> TRUE]

substr(str, o, n) ==
  LET s == Len(str)
      l == IF o < 0 THEN 0 ELSE o
      r0 == IF n < 0 THEN s + n ELSE o + n
      r == IF s < r0 THEN s ELSE r0
  IN  IF s = 0 THEN <<>>
      ELSE IF r <= l THEN <<>>
      ELSE GoSub(str, l, r)

substrLimited(str, o, n) ==
  LET n1 == IF o < 0 THEN n + o ELSE n
      o1 == IF o < 0 THEN 0 ELSE o
      n2 == IF n1 < 0 THEN 0 ELSE n1
  IN  substr(str, o1, n2)

\* &parser{Mode: m}
NewParser(m) ==
  [Mode |-> m, SkipWhitespaces |-> FALSE, string |-> <<>>, index |-> 0, buffer |-> <<>>]

\* p.errorf(pos, err, format, args...)
errorf(p, pos, err, format, args) ==
  LET i   == CASE p.Mode = ORison -> p.index - 1
               [] p.Mode = ARison -> p.index - 2
               [] OTHER -> p.index
      src == CASE p.Mode = ORison -> substr(p.string, 1, -1)
               [] p.Mode = ARison -> substr(p.string, 2, -1)
               [] OTHER -> p.string
  IN  [nil |-> FALSE, Child |-> err, Err |-> [format |-> format, args |-> args],
       Src |-> src, Pos |-> pos + i]

nodeType_invalid == "invalid"

nodeType_null == "null"

nodeType_boolean == "boolean"

nodeType_number == "number"

nodeType_string == "string"

nodeType_array == "array"

nodeType_object == "object"

\* What a parser method leaves behind: the parser, the node type and error it
\* returns, or a run-time panic.
Ret(p, typ, err) == [p |-> p, typ |-> typ, err |-> err, panic |-> FALSE]

Panic(p) == [p |-> p, typ |-> nodeType_invalid, err |-> NilError, panic |-> TRUE]

Write(p, bytes) == [p EXCEPT !.buffer = p.buffer \o bytes]

\* p.next(): the next byte (the next non-whitespace byte when SkipWhitespaces).
RECURSIVE next(_)
next(p) ==
  IF p.index < Len(p.string)
    THEN LET c  == At(p.string, p.index)
             p1 == [p EXCEPT !.index = p.index + 1]
         IN  IF ~p.SkipWhitespaces \/ ~IndexByteIn(parserWhitespace, c)
               THEN [p |-> p1, c |-> c, ok |-> TRUE]
               ELSE next(p1)
    ELSE [p |-> p, c |-> "x00", ok |-> FALSE]

\* The loop of parseID had it stopped at the bytes that may not start an
\* identifier.
RECURSIVE parseIDLoopStartSet(_, _)
parseIDLoopStartSet(s, i) ==
  IF Len(s) <= i THEN i
  ELSE IF IndexByteIn(notIDStart, At(s, i)) THEN i
  ELSE parseIDLoopStartSet(s, i + 1)

\* The loop of parseID: the index after the last byte of the identifier.
RECURSIVE parseIDLoop(_, _)
parseIDLoop(s, i) ==
  IF Len(s) <= i THEN i
  ELSE IF IndexByteIn(notIDChar, At(s, i)) THEN i
  ELSE parseIDLoop(s, i + 1)

\* p.parseID(): ok is whether an identifier was read.
parseID(p) ==
  LET Read(e) ==
        [p |-> Write([p EXCEPT !.index = e], MarshalString(GoSub(p.string, p.index, e))),
         ok |-> TRUE, err |-> NilError]
  IN  IF Len(p.string) <= p.index THEN [p |-> p, ok |-> FALSE, err |-> NilError]
      ELSE IF IndexByteIn(notIDStart, At(p.string, p.index))
        THEN [p |-> p, ok |-> FALSE, err |-> NilError]
      ELSE Read(parseIDLoop(p.string, p.index + 1))

\* What parseQuotedString has gathered when it meets the byte s[i - 1].
Gathered(s, i, start, result) ==
  IF start < i - 1 THEN result \o GoSub(s, start, i - 1) ELSE result

\* The loop of parseQuotedString.
RECURSIVE parseQuotedStringLoop(_, _, _, _)
parseQuotedStringLoop(p, i, start, result) ==
  LET Fail(p1, format, args) == Ret(p1, nodeType_string, errorf(p1, 0, NilError, format, args))
      Escape(c, r) ==
        IF c \in {"!", "'"}
          THEN parseQuotedStringLoop(p, i + 2, i + 2, Append(r, c))
          ELSE Fail([p EXCEPT !.index = i + 2], "invalid string escape \"!%c\"", <<c>>)
  IN  IF Len(p.string) <= i
        THEN Fail([p EXCEPT !.index = i], "unmatched \"'\"", <<>>)
      ELSE IF At(p.string, i) = "'"
        THEN Ret(Write([p EXCEPT !.index = i + 1],
                       MarshalString(Gathered(p.string, i + 1, start, result))),
                 nodeType_string, NilError)
      ELSE IF At(p.string, i) = "!"
        THEN IF Len(p.string) <= i + 1
               THEN Panic(p) \* c = s[i]: index out of range
               ELSE Escape(At(p.string, i + 1), Gathered(p.string, i + 1, start, result))
      ELSE parseQuotedStringLoop(p, i + 1, start, result)

parseQuotedString(p) == parseQuotedStringLoop(p, p.index, p.index, <<>>)

parseNumberStateEnd == "End"

parseNumberStateInt == "Int"

parseNumberStateFrac == "Frac"

parseNumberStateExp == "Exp"

\* The loop of parseNumber had it taken 'E' for 'e'.
RECURSIVE parseNumberLoopAnyE(_, _, _, _)
parseNumberLoopAnyE(s, i, state, permittedSigns) ==
  IF state = parseNumberStateEnd THEN i
  ELSE IF Len(s) <= i THEN i + 1
  ELSE LET c == At(s, i)
       IN  IF Ord("0") <= Ord(c) /\ Ord(c) <= Ord("9")
             THEN parseNumberLoopAnyE(s, i + 1, state, permittedSigns)
           ELSE IF IndexByteIn(permittedSigns, c)
             THEN parseNumberLoopAnyE(s, i + 1, state, <<>>)
           ELSE IF state = parseNumberStateInt /\ c = "."
             THEN parseNumberLoopAnyE(s, i + 1, parseNumberStateFrac, permittedSigns)
           ELSE IF state \in {parseNumberStateInt, parseNumberStateFrac} /\ c \in {"e", "E"}
             THEN parseNumberLoopAnyE(s, i + 1, parseNumberStateExp, <<"-">>)
           ELSE parseNumberLoopAnyE(s, i + 1, parseNumberStateEnd, permittedSigns)

\* The loop of parseNumber: the value of i when the loop is left.
RECURSIVE parseNumberLoop(_, _, _, _)
parseNumberLoop(s, i, state, permittedSigns) ==
  IF state = parseNumberStateEnd THEN i
  ELSE IF Len(s) <= i THEN i + 1
  ELSE LET c == At(s, i)
       IN  IF Ord("0") <= Ord(c) /\ Ord(c) <= Ord("9")
             THEN parseNumberLoop(s, i + 1, state, permittedSigns)
           ELSE IF IndexByteIn(permittedSigns, c)
             THEN parseNumberLoop(s, i + 1, state, <<>>)
           ELSE IF state = parseNumberStateInt /\ c = "."
             THEN parseNumberLoop(s, i + 1, parseNumberStateFrac, permittedSigns)
           ELSE IF state \in {parseNumberStateInt, parseNumberStateFrac} /\ c = "e"
             THEN parseNumberLoop(s, i + 1, parseNumberStateExp, <<"-">>)
           ELSE parseNumberLoop(s, i + 1, parseNumberStateEnd, permittedSigns)

\* The text parseNumber scans: from the byte readValue consumed to the end
\* the lexer finds.
NumberText(p) ==
  GoSub(p.string, p.index - 1,
        parseNumberLoop(p.string, p.index, parseNumberStateInt, <<"-">>) - 1)

parseNumber(p) ==
  LET Convert(p1, t, u) ==
        IF t = <<"-">>
          THEN Ret(p1, nodeType_number, errorf(p1, 0, NilError, "invalid number", <<>>))
        ELSE IF ~u.ok
          THEN Ret(p1, nodeType_number,
                   errorf(p1, 0, JSONError, "invalid number \"%s\"", <<t>>))
        ELSE Ret(Write(p1, MarshalValue(u.v)), nodeType_number, NilError)
      Text(i, t) == Convert([p EXCEPT !.index = i], t, Unmarshal(t))
      Scanned(i) == Text(i, GoSub(p.string, p.index - 1, i))
  IN  Scanned(parseNumberLoop(p.string, p.index, parseNumberStateInt, <<"-">>) - 1)

RECURSIVE readValue(_)
RECURSIVE parseSpecial(_)
RECURSIVE parseArrayLoop(_, _)
RECURSIVE parseObjectLoop(_, _)

parseArray(p) ==
  LET Typed(r) == [r EXCEPT !.typ = nodeType_array]
  IN  Typed(parseArrayLoop(Write(p, <<"[">>), FALSE))

parseObject(p) ==
  LET Typed(r) == [r EXCEPT !.typ = nodeType_object]
  IN  Typed(parseObjectLoop(Write(p, <<"{">>), FALSE))

readValue(p) ==
  LET Ident(c, p1, id) ==
        IF ~id.err.nil THEN Ret(id.p, nodeType_invalid, id.err)
        ELSE IF id.ok THEN Ret(id.p, nodeType_string, NilError)
        ELSE Ret(p1, nodeType_invalid,
                 errorf(p1, 0, NilError, "invalid character \"%c\" (0x%02X)", <<c, c>>))
      Back(c, p1) == Ident(c, p1, parseID(p1))
      Switch(n) ==
        IF ~n.ok
          THEN Ret(n.p, nodeType_invalid, errorf(n.p, 0, NilError, "empty expression", <<>>))
        ELSE IF n.c = "!" THEN parseSpecial(n.p)
        ELSE IF n.c = "(" THEN parseObject(n.p)
        ELSE IF n.c = "'" THEN parseQuotedString(n.p)
        ELSE IF n.c = "-" \/ (Ord("0") <= Ord(n.c) /\ Ord(n.c) <= Ord("9"))
          THEN parseNumber(n.p)
        ELSE Back(n.c, [n.p EXCEPT !.index = n.p.index - 1])
  IN  Switch(next(p))

\* parseSpecial had it taken every byte it does not know for 'n'.
parseSpecialAnyLiteral(p) ==
  LET Literal(c, p1) ==
        CASE c = "t" -> Ret(Write(p1, <<"t", "r", "u", "e">>), nodeType_boolean, NilError)
          [] c = "f" -> Ret(Write(p1, <<"f", "a", "l", "s", "e">>), nodeType_boolean, NilError)
          [] c = "(" -> parseArray(p1)
          [] OTHER -> Ret(Write(p1, <<"n", "u", "l", "l">>), nodeType_null, NilError)
  IN  IF Len(p.string) <= p.index
        THEN Ret(p, nodeType_invalid, errorf(p, 0, NilError, "\"!\" at end of input", <<>>))
        ELSE Literal(At(p.string, p.index), [p EXCEPT !.index = p.index + 1])

parseSpecial(p) ==
  LET Literal(c, p1) ==
        CASE c = "t" -> Ret(Write(p1, <<"t", "r", "u", "e">>), nodeType_boolean, NilError)
          [] c = "f" -> Ret(Write(p1, <<"f", "a", "l", "s", "e">>), nodeType_boolean, NilError)
          [] c = "n" -> Ret(Write(p1, <<"n", "u", "l", "l">>), nodeType_null, NilError)
          [] c = "(" -> parseArray(p1)
          [] OTHER -> Ret(p1, nodeType_invalid,
                          errorf(p1, -1, NilError, "unknown literal \"!%c\"", <<c>>))
  IN  IF Len(p.string) <= p.index
        THEN Ret(p, nodeType_invalid, errorf(p, 0, NilError, "\"!\" at end of input", <<>>))
        ELSE Literal(At(p.string, p.index), [p EXCEPT !.index = p.index + 1])

\* Separator had it looked for the ',' before looking at the end of the input.
SeparatorCommaFirst(n, notFirst, opener) ==
  IF notFirst /\ (~n.ok \/ n.c # ",") THEN [pos |-> -1, format |-> "missing \",\""]
  ELSE IF ~n.ok THEN [pos |-> 0, format |-> opener]
  ELSE IF ~notFirst /\ n.c = "," THEN [pos |-> -1, format |-> "extra \",\""]
  ELSE [pos |-> 0, format |-> ""]

\* What parseArray and parseObject do with the byte next() gave them, before
\* they read an element: "" to go on, or the error.
Separator(n, notFirst, opener) ==
  IF ~n.ok THEN [pos |-> 0, format |-> opener]
  ELSE IF notFirst /\ n.c # "," THEN [pos |-> -1, format |-> "missing \",\""]
  ELSE IF ~notFirst /\ n.c = "," THEN [pos |-> -1, format |-> "extra \",\""]
  ELSE [pos |-> 0, format |-> ""]

\* The parser when the element is read: ',' written, or the byte put back.
AtElement(n, notFirst) ==
  IF notFirst THEN Write(n.p, <<",">>) ELSE [n.p EXCEPT !.index = n.p.index - 1]

\* The loop of parseArray, entered with '[' written.
parseArrayLoop(p, notFirst) ==
  LET Fail(p1, pos, child, format) ==
        Ret(p1, nodeType_array, errorf(p1, pos, child, format, <<>>))
      Element(v) == IF v.panic \/ ~v.err.nil THEN v ELSE parseArrayLoop(v.p, TRUE)
      Checked(n, sep) ==
        IF n.ok /\ n.c = ")" THEN Ret(Write(n.p, <<"]">>), nodeType_array, NilError)
        ELSE IF sep.format # "" THEN Fail(n.p, sep.pos, NilError, sep.format)
        ELSE Element(readValue(AtElement(n, notFirst)))
      Byte(n) == Checked(n, Separator(n, notFirst, "unmatched \"!(\""))
  IN  Byte(next(p))

\* The loop of parseObject had it not looked at the type of the key.
parseObjectLoopAnyKey(p, notFirst) ==
  LET Fail(p1, pos, child, format) ==
        Ret(p1, nodeType_object, errorf(p1, pos, child, format, <<>>))
      Value(v) ==
        IF v.panic THEN v
        ELSE IF ~v.err.nil THEN Fail(v.p, 0, v.err, "invalid object value")
        ELSE parseObjectLoop(v.p, TRUE)
      Colon(n2) ==
        IF ~n2.ok THEN Fail(n2.p, 0, NilError, "missing \":\"")
        ELSE IF n2.c # ":"
          THEN Fail(n2.p, -1, NilError, "missing \":\" or invalid type of object key")
        ELSE Value(readValue(Write(n2.p, <<":">>)))
      Key(k) ==
        IF k.panic THEN k
        ELSE IF ~k.err.nil THEN Fail(k.p, 0, k.err, "invalid object key")
        ELSE Colon(next(k.p))
      Checked(n, sep) ==
        IF n.ok /\ n.c = ")" THEN Ret(Write(n.p, <<"}">>), nodeType_object, NilError)
        ELSE IF sep.format # "" THEN Fail(n.p, sep.pos, NilError, sep.format)
        ELSE Key(readValue(AtElement(n, notFirst)))
      Byte(n) == Checked(n, Separator(n, notFirst, "unmatched \"(\""))
  IN  Byte(next(p))

\* The loop of parseObject, entered with '{' written.
parseObjectLoop(p, notFirst) ==
  LET Fail(p1, pos, child, format) ==
        Ret(p1, nodeType_object, errorf(p1, pos, child, format, <<>>))
      Value(v) ==
        IF v.panic THEN v
        ELSE IF ~v.err.nil THEN Fail(v.p, 0, v.err, "invalid object value")
        ELSE parseObjectLoop(v.p, TRUE)
      Colon(n2) ==
        IF ~n2.ok THEN Fail(n2.p, 0, NilError, "missing \":\"")
        ELSE IF n2.c # ":"
          THEN Fail(n2.p, -1, NilError, "missing \":\" or invalid type of object key")
        ELSE Value(readValue(Write(n2.p, <<":">>)))
      Key(k) ==
        IF k.panic THEN k
        ELSE IF ~k.err.nil THEN Fail(k.p, 0, k.err, "invalid object key")
        ELSE IF k.typ # nodeType_string
          THEN Fail(k.p, -1, NilError, "object key must be a string")
        ELSE Colon(next(k.p))
      Checked(n, sep) ==
        IF n.ok /\ n.c = ")" THEN Ret(Write(n.p, <<"}">>), nodeType_object, NilError)
        ELSE IF sep.format # "" THEN Fail(n.p, sep.pos, NilError, sep.format)
        ELSE Key(readValue(AtElement(n, notFirst)))
      Byte(n) == Checked(n, Separator(n, notFirst, "unmatched \"(\""))
  IN  Byte(next(p))

\* Wrap had the array mode opened with "(" alone.
WrapParenOnly(rison, m) ==
  CASE m = ORison -> <<"(">> \o rison \o <<")">>
    [] m = ARison -> <<"(">> \o rison \o <<")">>
    [] OTHER -> rison

\* rison wrapped as the mode asks.
Wrap(rison, m) ==
  CASE m = ORison -> <<"(">> \o rison \o <<")">>
    [] m = ARison -> <<"!", "(">> \o rison \o <<")">>
    [] OTHER -> rison

\* parse had it returned after readValue without looking at the cursor.
parseNoEndCheck(p, rison) ==
  LET Result(r) ==
        IF r.panic
          THEN [panic |-> TRUE, j |-> <<>>, jnil |-> TRUE, err |-> NilError]
        ELSE IF ~r.err.nil
          THEN [panic |-> FALSE, j |-> <<>>, jnil |-> TRUE, err |-> r.err]
        ELSE [panic |-> FALSE, j |-> r.p.buffer, jnil |-> FALSE, err |-> NilError]
  IN  IF ~utf8Valid(rison)
        THEN [panic |-> FALSE, j |-> <<>>, jnil |-> TRUE,
              err |-> errorf(p, 0, NilError, "rison must be a valid UTF-8 string", <<>>)]
        ELSE Result(readValue([p EXCEPT !.string = Wrap(rison, p.Mode), !.index = 0,
                                        !.buffer = <<>>]))

\* p.parse(rison): the bytes and error returned (jnil: the bytes are nil).
parse(p, rison) ==
  LET Result(r) ==
        IF r.panic
          THEN [panic |-> TRUE, j |-> <<>>, jnil |-> TRUE, err |-> NilError]
        ELSE IF ~r.err.nil
          THEN [panic |-> FALSE, j |-> <<>>, jnil |-> TRUE, err |-> r.err]
        ELSE IF r.p.index < Len(r.p.string)
          THEN [panic |-> FALSE, j |-> r.p.buffer, jnil |-> FALSE,
                err |-> errorf(r.p, 0, NilError,
                               "extra character \"%c\" (0x%02X) after top-level value",
                               <<At(r.p.string, r.p.index), At(r.p.string, r.p.index)>>)]
        ELSE [panic |-> FALSE, j |-> r.p.buffer, jnil |-> FALSE, err |-> NilError]
  IN  IF ~utf8Valid(rison)
        THEN [panic |-> FALSE, j |-> <<>>, jnil |-> TRUE,
              err |-> errorf(p, 0, NilError, "rison must be a valid UTF-8 string", <<>>)]
        ELSE Result(readValue([p EXCEPT !.string = Wrap(rison, p.Mode), !.index = 0,
                                        !.buffer = <<>>]))

\* ToJSON(data, m)
ToJSON(rison, m) == parse(NewParser(m), rison)

\* Decode(data, m): the value and error returned (the value nil with an error).
Decode(rison, m) ==
  LET Value(u) ==
        IF ~u.ok THEN [panic |-> FALSE, v |-> GoNil, err |-> JSONError]
        ELSE [panic |-> FALSE, v |-> u.v, err |-> NilError]
      Parsed(t) ==
        IF t.panic THEN [panic |-> TRUE, v |-> GoNil, err |-> NilError]
        ELSE IF ~t.err.nil THEN [panic |-> FALSE, v |-> GoNil, err |-> t.err]
        ELSE Value(Unmarshal(t.j))
  IN  Parsed(ToJSON(rison, m))

(***************************************************************************)
(* The rendering of a ParseError (errtype.go and the tables and            *)
(* ErrorInLang of the errors file).  A rendered message is a TLA+ string;  *)
(* a character that is not ASCII is written <U+XXXX>.                      *)
(***************************************************************************)

\* string(b) for the bytes b.
RECURSIVE Str(_)
Str(b) == IF b = <<>> THEN "" ELSE b[1] \o Str(Tail(b))

\* The kinds of errors in the order of their declaration; the number of a kind
\* is its place in it, less one.
ErrTypes ==
  <<"Internal", "Encoding", "EmptyString", "UnmatchedPair", "MissingCharacter",
    "MissingCharacterAfterEscape", "ExtraCharacter", "ExtraCharacterAfterRison",
    "InvalidLiteral", "InvalidCharacter", "InvalidTypeOfObjectKey", "InvalidStringEscape",
    "InvalidNumber", "InvalidLargeExp">>

errLangs == <<"en", "ja">>

\* fmt's %d.
FmtInt(n) == IF n < 0 THEN "-" \o Str(IntText(0 - n, 1)) ELSE Str(IntText(n, 1))

\* ErrType(n): the kind whose number is n, by the name of its constant; a
\* number that has no constant is held as fmt's %d prints it.
ErrType(n) == IF n \in 0 .. (Len(ErrTypes) - 1) THEN ErrTypes[n + 1] ELSE FmtInt(n)

\* fmt.Sprintf(errorMessage[lang][kind], a) for the kinds that have a message;
\* a is the argument as fmt prints it.
errorMessage(lang, kind, a) ==
  CASE lang = "ja" /\ kind = "Internal" ->
         "<U+5185><U+90E8><U+30A8><U+30E9><U+30FC>: " \o a
    [] lang = "ja" /\ kind = "Encoding" ->
         "Rison<U+306F><U+6B63><U+3057><U+3044>UTF-8<U+6587><U+5B57><U+5217><U+3067><U+3042><U+308B><U+5FC5><U+8981><U+304C><U+3042><U+308A><U+307E><U+3059>"
    [] lang = "ja" /\ kind = "EmptyString" ->
         "<U+6587><U+5B57><U+5217><U+304C><U+7A7A><U+3067><U+3059>"
    [] lang = "ja" /\ kind = "UnmatchedPair" ->
         "\"" \o a \o "\" <U+304C><U+9589><U+3058><U+3066><U+3044><U+307E><U+305B><U+3093>"
    [] lang = "ja" /\ kind = "MissingCharacter" ->
         "\"" \o a \o "\" <U+304C><U+5FC5><U+8981><U+3067><U+3059>"
    [] lang = "ja" /\ kind = "MissingCharacterAfterEscape" ->
         "\"!\" <U+306E><U+5F8C><U+306B><U+6587><U+5B57><U+304C><U+5FC5><U+8981><U+3067><U+3059>"
    [] lang = "ja" /\ kind = "ExtraCharacter" ->
         "\"" \o a \o "\" <U+304C><U+4F59><U+5206><U+3067><U+3059>"
    [] lang = "ja" /\ kind = "ExtraCharacterAfterRison" ->
         "<U+6B63><U+3057><U+3044>Rison<U+306E><U+5F8C><U+306B><U+4F59><U+5206><U+306A><U+6587><U+5B57> \"" \o a \o "\" <U+304C><U+898B><U+3064><U+304B><U+308A><U+307E><U+3057><U+305F>"
    [] lang = "ja" /\ kind = "InvalidLiteral" ->
         "<U+4E0D><U+6B63><U+306A><U+30EA><U+30C6><U+30E9><U+30EB> \"!" \o a \o "\" <U+304C><U+898B><U+3064><U+304B><U+308A><U+307E><U+3057><U+305F>"
    [] lang = "ja" /\ kind = "InvalidCharacter" ->
         "<U+4E0D><U+6B63><U+306A><U+6587><U+5B57> \"" \o a \o "\" <U+304C><U+898B><U+3064><U+304B><U+308A><U+307E><U+3057><U+305F>"
    [] lang = "ja" /\ kind = "InvalidTypeOfObjectKey" ->
         "<U+30AA><U+30D6><U+30B8><U+30A7><U+30AF><U+30C8><U+30AD><U+30FC><U+306F><U+6587><U+5B57><U+5217><U+3067><U+3042><U+308B><U+5FC5><U+8981><U+304C><U+3042><U+308A><U+307E><U+3059>"
    [] lang = "ja" /\ kind = "InvalidStringEscape" ->
         "<U+4E0D><U+6B63><U+306A><U+30A8><U+30B9><U+30B1><U+30FC><U+30D7><U+6587><U+5B57><U+5217> \"!" \o a \o "\" <U+304C><U+898B><U+3064><U+304B><U+308A><U+307E><U+3057><U+305F>"
    [] lang = "ja" /\ kind = "InvalidNumber" ->
         "<U+4E0D><U+6B63><U+306A><U+6570><U+5024> \"" \o a \o "\" <U+304C><U+898B><U+3064><U+304B><U+308A><U+307E><U+3057><U+305F>"
    [] lang = "ja" /\ kind = "InvalidLargeExp" ->
         "<U+6307><U+6570><U+8868><U+8A18><U+306B><U+5927><U+6587><U+5B57><U+306E> \"E\" <U+306F><U+4F7F><U+7528><U+3067><U+304D><U+307E><U+305B><U+3093>"
    [] lang = "en" /\ kind = "Internal" ->
         "internal error: " \o a
    [] lang = "en" /\ kind = "Encoding" ->
         "Rison must be a valid UTF-8 string"
    [] lang = "en" /\ kind = "EmptyString" ->
         "empty string"
    [] lang = "en" /\ kind = "UnmatchedPair" ->
         "unmatched \"" \o a \o "\""
    [] lang = "en" /\ kind = "MissingCharacter" ->
         "missing \"" \o a \o "\""
    [] lang = "en" /\ kind = "MissingCharacterAfterEscape" ->
         "missing character after \"!\""
    [] lang = "en" /\ kind = "ExtraCharacter" ->
         "extra character \"" \o a \o "\""
    [] lang = "en" /\ kind = "ExtraCharacterAfterRison" ->
         "extra character \"" \o a \o "\" after valid Rison"
    [] lang = "en" /\ kind = "InvalidLiteral" ->
         "invalid literal \"!" \o a \o "\""
    [] lang = "en" /\ kind = "InvalidCharacter" ->
         "invalid character \"" \o a \o "\""
    [] lang = "en" /\ kind = "InvalidTypeOfObjectKey" ->
         "object key must be a string"
    [] lang = "en" /\ kind = "InvalidStringEscape" ->
         "invalid string escape \"!" \o a \o "\""
    [] lang = "en" /\ kind = "InvalidNumber" ->
         "invalid number \"" \o a \o "\""
    [] lang = "en" /\ kind = "InvalidLargeExp" ->
         "large case \"E\" for exponent cannot be used"

\* fmt.Sprintf(errPosDesc[lang][errPosNear], ...)
errPosNear(lang, pos, ll, l, c, r, rr) ==
  IF lang = "ja"
    THEN " (<U+5834><U+6240>: [" \o FmtInt(pos) \o "]<U+4ED8><U+8FD1>: " \o ll \o "\"" \o l \o "\" <U+2192> \"" \o c \o "\" <U+2192> \"" \o r \o "\"" \o rr \o ")"
    ELSE " (at [" \o FmtInt(pos) \o "] near " \o ll \o "\"" \o l \o "\" -> \"" \o c \o "\" -> \"" \o r \o "\"" \o rr \o ")"

\* fmt.Sprintf(errPosDesc[lang][errPosFirst], ...)
errPosFirst(lang, c) ==
  IF lang = "ja"
    THEN " (<U+5834><U+6240>: <U+5148><U+982D><U+6587><U+5B57>: \"" \o c \o "\")"
    ELSE " (at the first character \"" \o c \o "\")"

\* fmt.Sprintf(errPosDesc[lang][errPosStart], ...)
errPosStart(lang, c, r, rr) ==
  IF lang = "ja"
    THEN " (<U+5834><U+6240>: <U+5148><U+982D><U+6587><U+5B57><U+4ED8><U+8FD1>: \"" \o c \o "\" <U+2192> \"" \o r \o "\"" \o rr \o ")"
    ELSE " (at the first character \"" \o c \o "\" -> \"" \o r \o "\"" \o rr \o ")"

\* fmt.Sprintf(errPosDesc[lang][errPosEnd], ...)
errPosEnd(lang, ll, l) ==
  IF lang = "ja"
    THEN " (<U+5834><U+6240>: <U+6587><U+5B57><U+5217><U+7D42><U+7AEF>: " \o ll \o "\"" \o l \o "\" <U+2192> EOS)"
    ELSE " (at the end of string " \o ll \o "\"" \o l \o "\" -> EOS)"

\* fmt.Sprintf(errPosDesc[lang][errPosLast], ...)
errPosLast(lang, ll, l, c) ==
  IF lang = "ja"
    THEN " (<U+5834><U+6240>: <U+7D42><U+7AEF><U+6587><U+5B57>: " \o ll \o "\"" \o l \o "\" <U+2192> \"" \o c \o "\")"
    ELSE " (at the last character " \o ll \o "\"" \o l \o "\" -> \"" \o c \o "\")"

\* errPosDesc[lang][errPosEllipsisLeft]
errPosEllipsisLeft(lang) ==
  IF lang = "ja"
    THEN "<U+301C> "
    ELSE ".. "

\* errPosDesc[lang][errPosEllipsisRight]
errPosEllipsisRight(lang) ==
  IF lang = "ja"
    THEN " <U+301C>"
    ELSE " .."


\* ErrorInLang had looked at the byte at Pos before the bytes on its left.
PosSuffixCenterFirst(lang, pos, ll, l, c, r, rr) ==
  IF c = "" THEN errPosEnd(lang, ll, l)
  ELSE IF l = ""
    THEN IF r = "" THEN errPosFirst(lang, c) ELSE errPosStart(lang, c, r, rr)
  ELSE IF r = "" THEN errPosLast(lang, ll, l, c)
  ELSE errPosNear(lang, pos, ll, l, c, r, rr)

\* The positional part of a rendered ParseError, from the pieces ErrorInLang
\* cuts out of Src: the choice among the forms of errPosDesc[lang].
PosSuffix(lang, pos, ll, l, c, r, rr) ==
  IF l = ""
    THEN IF r = ""
           THEN IF c = "" THEN "" ELSE errPosFirst(lang, c)
           ELSE errPosStart(lang, c, r, rr)
  ELSE IF c = "" THEN errPosEnd(lang, ll, l)
  ELSE IF r = "" THEN errPosLast(lang, ll, l, c)
  ELSE errPosNear(lang, pos, ll, l, c, r, rr)

\* ErrorInLang had fallen back to the tables of "ja".
TableLangJa(lang) == IF \E i \in DOMAIN errLangs : errLangs[i] = lang THEN lang ELSE "ja"

\* The language whose tables ErrorInLang uses for the tag lang.
TableLang(lang) == IF \E i \in DOMAIN errLangs : errLangs[i] = lang THEN lang ELSE "en"

\* (*ParseError).ErrorInLang(lang) for the error e with Type, Args, Src and Pos.
ErrorInLang(e, lang) ==
  LET n == 5
      Msg(t) ==
        IF \E i \in DOMAIN ErrTypes : ErrTypes[i] = e.Type
          THEN errorMessage(t, e.Type, IF e.Args = <<>> THEN "" ELSE e.Args[1])
          ELSE errorMessage(t, "Internal", "err=" \o e.Type)
      Suffix(t) ==
        PosSuffix(t, e.Pos,
                  IF 0 < e.Pos - n THEN errPosEllipsisLeft(t) ELSE "",
                  Str(substrLimited(e.Src, e.Pos - n, n)),
                  Str(substrLimited(e.Src, e.Pos, 1)),
                  Str(substrLimited(e.Src, e.Pos + 1, n)),
                  IF e.Pos + 1 + n < Len(e.Src) THEN errPosEllipsisRight(t) ELSE "")
      In(t) == Msg(t) \o Suffix(t)
  IN  In(TableLang(lang))

\* (*ParseError).Error()
Error(e) == ErrorInLang(e, "en")

(***************************************************************************)
(* encoder.go                                                              *)
(*                                                                         *)
(* A reflect.Value is [kind, v]: the kind reflect reports and the Go value *)
(* it holds.  The elements of a map[string]interface{} and of an           *)
(* []interface{} have kind Interface.  An error of the encoder is          *)
(* NilError or an EncodeError holding the format and its arguments.        *)
(***************************************************************************)

EncodeError(format, args) == [nil |-> FALSE, format |-> format, args |-> args]

\* reflect.ValueOf(v)
ValueOf(v) ==
  [kind |-> CASE v.k = "nil" -> "Invalid"
              [] v.k = "bool" -> "Bool"
              [] v.k = "float64" -> "Float64"
              [] v.k = "string" -> "String"
              [] v.k = "map" -> "Map"
              [] v.k = "slice" -> "Slice"
              [] v.k = "func" -> "Func"
              [] v.k = "uintptr" -> "Uintptr"
              [] v.k \in {"map[int]", "map[float64]"} -> "Map",
   v |-> v]

\* v.MapIndex(k) and v.Index(i): an element of interface type.
InterfaceOf(v) == [kind |-> "Interface", v |-> v]

checkKindMatchesMode(kind, m) ==
  CASE m = ORison /\ kind # "Map" ->
         EncodeError("only a struct or a map[string] can be encoded to the O-Rison", <<>>)
    [] m = ARison /\ ~(kind = "Slice" \/ kind = "Array") ->
         EncodeError("only a slice or an array can be encoded to the A-Rison", <<>>)
    [] OTHER -> NilError

\* convertRisonToMode had it taken one byte off the front in the array mode too.
convertRisonToModeOneByte(r, m) ==
  LET n == Len(r)
  IN  IF m # Rison /\ ~(3 <= n /\ At(r, n - 1) = ")")
        THEN [out |-> <<>>, outnil |-> TRUE,
              err |-> EncodeError("failed to encode the value", <<>>)]
      ELSE IF m # Rison THEN [out |-> GoSub(r, 1, n - 1), outnil |-> FALSE, err |-> NilError]
      ELSE [out |-> r, outnil |-> FALSE, err |-> NilError]

\* convertRisonToMode(r, mode): the bytes and error returned.
convertRisonToMode(r, m) ==
  LET n == Len(r)
  IN  CASE m = ORison ->
             IF ~(3 <= n /\ At(r, 0) = "(" /\ At(r, n - 1) = ")")
               THEN [out |-> <<>>, outnil |-> TRUE,
                     err |-> EncodeError("failed to encode the value to the O-Rison", <<>>)]
               ELSE [out |-> GoSub(r, 1, n - 1), outnil |-> FALSE, err |-> NilError]
        [] m = ARison ->
             IF ~(4 <= n /\ At(r, 0) = "!" /\ At(r, 1) = "(" /\ At(r, n - 1) = ")")
               THEN [out |-> <<>>, outnil |-> TRUE,
                     err |-> EncodeError("failed to encode the value to the A-Rison", <<>>)]
               ELSE [out |-> GoSub(r, 2, n - 1), outnil |-> FALSE, err |-> NilError]
        [] OTHER -> [out |-> r, outnil |-> FALSE, err |-> NilError]

\* The loop of idOk over s[1:].
RECURSIVE idOkLoop(_, _)
idOkLoop(s, i) ==
  IF Len(s) <= i THEN TRUE
  ELSE IF IndexByteIn(notIDChar, At(s, i)) THEN FALSE
  ELSE idOkLoop(s, i + 1)

\* idOk had it tested the first byte against notIDChar only.
idOkAnyStart(s) ==
  IF Len(s) = 0 THEN FALSE
  ELSE idOkLoop(s, 0)

idOk(s) ==
  IF Len(s) = 0 THEN FALSE
  ELSE IF IndexByteIn(notIDStart, At(s, 0)) THEN FALSE
  ELSE idOkLoop(s, 1)

\* The loop of writeString: s[i:] with ' and ! escaped.
RECURSIVE writeStringLoop(_, _)
writeStringLoop(s, i) ==
  IF Len(s) <= i THEN <<>>
  ELSE (IF At(s, i) = "'" \/ At(s, i) = "!" THEN <<"!", At(s, i)>> ELSE <<At(s, i)>>)
       \o writeStringLoop(s, i + 1)

\* e.writeString(v) for a string v: the bytes written.
writeString(s) ==
  IF idOk(s) THEN s
  ELSE <<"'">> \o writeStringLoop(s, 0) \o <<"'">>

\* e.encodeBool(path, v): the bytes written.
encodeBool(b) == IF b THEN <<"!", "t">> ELSE <<"!", "f">>

\* encodeNumber had it left the '+' of an exponent in place.
encodeNumberKeepPlus(v) == MarshalValue(v)

\* e.encodeNumber(path, v): the bytes written.
encodeNumber(v) == SelectSeq(MarshalValue(v), LAMBDA c : c # "+")

\* The seed-th arrangement of the keys in S.
RECURSIVE Arrange(_, _)
Arrange(S, n) ==
  IF S = {} THEN <<>>
  ELSE LET ks == SortedKeys(S)
           k  == ks[(n % Len(ks)) + 1]
       IN  <<k>> \o Arrange(S \ {k}, n \div Len(ks))

\* v.MapKeys(): the keys in the order the run time happens to give.
MapKeys(m) == Arrange(DOMAIN m, seed)

\* keys[:n] sorted, with k put in its place by less.
RECURSIVE InsertKey(_, _)
InsertKey(sorted, k) ==
  IF sorted = <<>> THEN <<k>>
  ELSE IF StrLess(k, Head(sorted)) THEN <<k>> \o sorted
  ELSE <<Head(sorted)>> \o InsertKey(Tail(sorted), k)

\* sort.Slice had it left the keys as MapKeys gave them.
sortSliceKeepOrder(keys) == keys

\* sort.Slice(keys, func(i, j) bool { ... return ki < kj })
RECURSIVE sortSlice(_)
sortSlice(keys) ==
  IF keys = <<>> THEN <<>>
  ELSE InsertKey(sortSlice(Tail(keys)), Head(keys))

\* fmt.Sprintf("%s[%d]", path, i)
IndexPath(path, i) == path \o <<"[">> \o IntText(i, 1) \o <<"]">>

\* e.encodeMap(path, v) for a map whose keys are not strings: writeString
\* refuses the first key of the slice, which sort.Slice leaves as MapKeys gave
\* it (less is false for every pair).
encodeMapKeys(m) ==
  IF DOMAIN m = {} THEN [buf |-> <<"(", ")">>, err |-> NilError]
  ELSE [buf |-> <<"(">>,
        err |-> EncodeError("invalid key %+v",
                            <<CHOOSE x \in DOMAIN m :
                                Cardinality({y \in DOMAIN m : y < x}) = seed % Cardinality(DOMAIN m)>>)]

RECURSIVE encodeValue(_, _)
RECURSIVE encodeMapLoop(_, _, _, _)
RECURSIVE encodeArrayLoop(_, _, _)

\* The loop of encodeMap over keys[i:]: the bytes written and the error.
encodeMapLoop(path, m, keys, i) ==
  IF Len(keys) <= i THEN [buf |-> <<")">>, err |-> NilError]
  ELSE LET k    == At(keys, i)
           e    == encodeValue(path \o <<".">> \o k, InterfaceOf(m[k]))
           rest == encodeMapLoop(path, m, keys, i + 1)
           pre  == (IF 0 < i THEN <<",">> ELSE <<>>) \o writeString(k) \o <<":">>
       IN  IF ~e.err.nil THEN [buf |-> pre \o e.buf, err |-> e.err]
           ELSE [buf |-> pre \o e.buf \o rest.buf, err |-> rest.err]

\* e.encodeMap(path, v)
encodeMap(path, m) ==
  LET r == encodeMapLoop(path, m, sortSlice(MapKeys(m)), 0)
  IN  [buf |-> <<"(">> \o r.buf, err |-> r.err]

\* The loop of encodeArray over a[i:].
encodeArrayLoop(path, a, i) ==
  IF Len(a) <= i THEN [buf |-> <<")">>, err |-> NilError]
  ELSE LET e    == encodeValue(IndexPath(path, i), InterfaceOf(At(a, i)))
           rest == encodeArrayLoop(path, a, i + 1)
           pre  == IF 0 < i THEN <<",">> ELSE <<>>
       IN  IF ~e.err.nil THEN [buf |-> pre \o e.buf, err |-> e.err]
           ELSE [buf |-> pre \o e.buf \o rest.buf, err |-> rest.err]

\* e.encodeArray(path, v)
encodeArray(path, a) ==
  LET r == encodeArrayLoop(path, a, 0)
  IN  [buf |-> <<"!", "(">> \o r.buf, err |-> r.err]

\* e.encodeValue(path, v): the bytes written to the buffer and the error.
encodeValue(path, rv) ==
  LET detail ==
        CASE rv.kind = "Bool" -> [buf |-> encodeBool(rv.v.v), err |-> NilError]
          [] rv.kind = "Float64" -> [buf |-> encodeNumber(rv.v), err |-> NilError]
          [] rv.kind = "String" -> [buf |-> writeString(rv.v.v), err |-> NilError]
          [] rv.kind = "Map" ->
               IF rv.v.k = "map" THEN encodeMap(path, rv.v.v) ELSE encodeMapKeys(rv.v.v)
          [] rv.kind = "Slice" -> encodeArray(path, rv.v.v)
          [] OTHER -> [buf |-> <<>>,
                       err |-> EncodeError("%s is non-supported kind", <<rv.kind>>)]
  IN  IF rv.kind = "Interface"
        THEN IF rv.v.k = "nil" THEN [buf |-> <<"!", "n">>, err |-> NilError]
             ELSE encodeValue(path, ValueOf(rv.v))
      ELSE IF detail.err.nil THEN detail
      ELSE [buf |-> detail.buf,
            err |-> EncodeError("non-encodable %s value at %s in %+v: %s",
                                <<rv.kind, IF path = <<>> THEN <<".">> ELSE path, detail.err>>)]

\* e.encode(data): the bytes and error returned (outnil: the bytes are nil).
encode(m, jsonData) ==
  LET u   == Unmarshal(jsonData)
      vv  == ValueOf(u.v)
      chk == checkKindMatchesMode(vv.kind, m)
      e   == encodeValue(<<>>, vv)
  IN  IF ~u.ok THEN [out |-> <<>>, outnil |-> TRUE, err |-> JSONError]
      ELSE IF ~chk.nil THEN [out |-> <<>>, outnil |-> TRUE, err |-> chk]
      ELSE IF jsonData = <<"n", "u", "l", "l">>
        THEN [out |-> <<"!", "n">>, outnil |-> FALSE, err |-> NilError]
      ELSE IF vv.kind = "Invalid"
        THEN [out |-> <<>>, outnil |-> TRUE,
              err |-> EncodeError("invalid JSON: %s", <<jsonData>>)]
      ELSE IF ~e.err.nil THEN [out |-> <<>>, outnil |-> TRUE, err |-> e.err]
      ELSE convertRisonToMode(e.buf, m)

\* FromJSON(data, m)
FromJSON(jsonData, m) == encode(m, jsonData)

\* Marshal(v, m)
Marshal(v, m) ==
  IF UnsupportedType(v)
    THEN [out |-> <<>>, outnil |-> TRUE,
          err |-> [nil |-> FALSE, json |-> TRUE, format |-> "json: unsupported type: %s"]]
    ELSE FromJSON(MarshalValue(v), m)

\* Encode(v, m)
Encode(v, m) == Marshal(v, m)

(***************************************************************************)
(* The inputs the calls are checked on.                                    *)
(***************************************************************************)

\* Longest Rison text handed to ToJSON and Decode.
MaxDecLen == 3

\* Longest number text handed to Decode.
MaxNumLen == 5

\* Longest string encoded on its own.
MaxStrLen == 2

\* Most elements of an array and most keys of an object that are encoded.
MaxElems == 2

\* Largest seed of the order in which a map hands out its keys.
MaxSeed == 1

\* Bytes of the Rison texts: the syntax, an identifier byte, number bytes, the
\* whitespace bytes and a byte that is not UTF-8.
DecAlphabet ==
  {"(", ")", "!", "'", ":", ",", "a", "t", "1", "-", "e", ".", " ", "\t", "\n", "\r", "\f", "xFF"}

\* Bytes of the number texts.
NumAlphabet == {"-", "+", "0", "9", ".", "e", "E"}

\* Bytes of the strings encoded on their own: every byte of notIDStart that
\* differs in kind, identifier bytes, a control byte.
StrAlphabet ==
  {" ", "'", "!", ":", "(", ")", ",", "*", "@", "$", "0", "9", "-", "a", "\t"}

\* Longer Rison texts: those of the tests (rison_test.go, encoder_test.go) and
\* unclosed, mis-keyed and mis-separated objects and arrays.
DecCases ==
  {<<"t", "r", "u", "e">>, <<"f", "a", "l", "s", "e">>, <<"n", "u", "l", "l">>,
   <<"n", "i", "l">>, <<"a", "-", "z">>, <<"G", ".">>,
   <<"!", "(", "t", "r", "u", "e", ",", "n", "i", "l", ")">>,
   <<"'", "w", "o", "w", "!", "!", "'">>, <<"'", "c", "a", "n", "!", "'", "t", "'">>,
   <<"'", "a", "!", "'", "!", "'">>, <<"'", "a", "b", "c">>, <<"'", "!", "x">>,
   <<"'", "0", "a", "'">>, <<"(", "f", "o", "o">>, <<"(", "f", "o", "o", ":">>,
   <<"(", "f", "o", "o", ":", "1">>, <<"(", "a", ":", "0", ",", "b", ":", "1", ")">>,
   <<"(", "1", "n", "o", "t", ":", "'", "i", "d", "'", ")">>, <<"(", "!", "t", ":", "1", ")">>,
   <<"(", "!", "n", ":", "1", ")">>, <<"(", "a", ":", "!", "t", ",", "0", ":", "!", "f", ")">>,
   <<"(", "f", "o", "o", ":", "1", ",", ")">>, <<"(", ",", "b", "a", "r", ":", "2", ")">>,
   <<"(", "a", ":", "(", "b">>, <<"(", "a", ":", "!", "(", "1">>,
   <<"(", "(", "a", ":", "1", ")", ":", "1", ")">>, <<"(", "!", "(", "1", ")", ":", "1", ")">>,
   <<"(", "1", ":", "1", ")">>, <<"(", "a", ":", "1", "b", ":", "2", ")">>,
   <<"(", "a", " ", "1", ")">>, <<"!", "(", "1", ",", "2", ",", "3", ")">>,
   <<"!", "(", "!", "t", "!", "f", ")">>, <<"!", "(", "1", ",", ")">>,
   <<"!", "(", ",", "2", ")">>, <<"!", "(", "1">>, <<"!", "(", "1", ",">>,
   <<"!", "(", "1", ",", ",", "2", ")">>, <<"!", "(", "a", ",", "(", "b">>,
   <<"!", "(", "!", "(">>, <<"!", "t", "f">>, <<"f", "o", "o", " ", "b", "a", "r">>,
   <<"(", ")", ")">>, <<"!", "(", ")", ")">>, <<"1", "E", "3", "0">>, <<"!", "z">>,
   <<"!", "!", "!">>, <<"!", "f">>, <<"!", "n">>, <<"!", "n", "a">>}

DecInputs == Texts(DecAlphabet, MaxDecLen) \cup DecCases

\* The forms with an uppercase 'E' that the tests list.
LargeEForms ==
  {<<"1", "E", "3", "0">>, <<"1", ".", "5", "E", "2">>, <<"1", ".", "5", "E", "+", "2">>,
   <<"1", ".", "5", "E", "-", "2">>}

NumInputs ==
  {t \in Texts(NumAlphabet, MaxNumLen) : t # <<>> /\ t[1] \in Digits \cup {"-"}}
    \cup LargeEForms

Seeds == 0 .. MaxSeed

\* float64 values, given by their texts.
Floats ==
  {ParseFloat(t).f : t \in {<<"0">>, <<"-", "0">>, <<"1">>, <<"-", "1", ".", "5">>,
                            <<"1", "e", "3", "0">>, <<"1", "e", "-", "7">>}}

\* Strings encoded on their own; the last is U+00E9 in UTF-8.
Strings == Texts(StrAlphabet, MaxStrLen) \cup {<<"xC3", "xA9">>, <<"<", "\"", "\\">>}

\* Keys of the objects encoded.
Keys == {<<"a">>, <<"b">>, <<"a", "b">>, <<>>, <<"1">>}

\* The sequences of at most n elements of S.
SeqsUpTo(S, n) == UNION {[1 .. k -> S] : k \in 0 .. n}

\* The maps of at most n keys from K to values of S.
MapsUpTo(K, S, n) == UNION {[D -> S] : D \in {X \in SUBSET K : Cardinality(X) <= n}}

\* Values that stand inside arrays and objects.
Elems ==
  {GoNil, GoBool(TRUE), GoFloat(ParseFloat(<<"1">>).f), GoString(<<"a">>),
   GoString(<<"'", " ">>)}

\* Arrays and objects that stand inside arrays and objects.
Inner ==
  {GoSlice(<<>>), GoSlice(<<GoString(<<"b">>)>>), GoMap(<<>>),
   GoMap([k \in {<<"b">>, <<"a">>} |-> GoBool(FALSE)])}

Scalars ==
  {GoNil, GoBool(TRUE), GoBool(FALSE)} \cup {GoFloat(f) : f \in Floats}
    \cup {GoString(t) : t \in Strings}

Arrays == {GoSlice(a) : a \in SeqsUpTo(Elems \cup Inner, MaxElems)}

Objects == {GoMap(m) : m \in MapsUpTo(Keys, Elems \cup Inner, MaxElems)}

\* The values handed to Encode.
Values == Scalars \cup Arrays \cup Objects

\* JSON texts handed to FromJSON are written from trees whose objects keep
\* the order, and the repetitions, of their keys.
JLeaves == {GoNil, GoBool(TRUE), GoFloat(ParseFloat(<<"1">>).f), GoString(<<"a">>)}

JInner ==
  {GoSlice(<<GoNil>>),
   JObject(<<<<<<"b">>, GoBool(FALSE)>>, <<<<"a">>, GoNil>>>>)}

JKeys == {<<"a">>, <<"b">>, <<"a", "b">>}

JTrees ==
  JLeaves
    \cup {GoSlice(a) : a \in SeqsUpTo(JLeaves \cup JInner, MaxElems)}
    \cup {JObject(ps) : ps \in SeqsUpTo(JKeys \X (JLeaves \cup JInner), MaxElems)}

RECURSIVE RenderJSON(_)
RECURSIVE RenderElems(_)
RECURSIVE RenderPairs(_)

\* The JSON text of a tree.
RenderJSON(t) ==
  CASE t.k = "slice" -> <<"[">> \o RenderElems(t.v) \o <<"]">>
    [] t.k = "object" -> <<"{">> \o RenderPairs(t.v) \o <<"}">>
    [] OTHER -> MarshalValue(t)

RenderElems(a) ==
  IF a = <<>> THEN <<>>
  ELSE RenderJSON(Head(a)) \o (IF Len(a) > 1 THEN <<",">> ELSE <<>>) \o RenderElems(Tail(a))

RenderPairs(ps) ==
  IF ps = <<>> THEN <<>>
  ELSE MarshalString(Head(ps)[1]) \o <<":">> \o RenderJSON(Head(ps)[2])
       \o (IF Len(ps) > 1 THEN <<",">> ELSE <<>>) \o RenderPairs(Tail(ps))

\* Texts that are not JSON, and null with spaces around it.
BadJSON == {<<>>, <<"{">>, <<"n", "u", "l">>, <<" ", "n", "u", "l", "l">>, <<"[", "1", ",", "]">>}

JSONInputs == {RenderJSON(t) : t \in JTrees} \cup BadJSON

(***************************************************************************)
(* The calls.  pc is the position of the caller: "start" before the call,  *)
(* and the name of what was called after it.  res holds what the first     *)
(* call returned and res2 what the call made on its output returned.       *)
(***************************************************************************)

None == [op |-> "none"]

\* The caller holds a Rison text and a mode.
Init ==
  /\ pc = "start"
  /\ mode \in Modes
  /\ data \in DecInputs
  /\ value = GoNil
  /\ seed = 0
  /\ res = None
  /\ res2 = None

\* The caller holds a number text and a mode.
InitNum ==
  /\ pc = "start"
  /\ mode \in Modes
  /\ data \in NumInputs
  /\ value = GoNil
  /\ seed = 0
  /\ res = None
  /\ res2 = None

\* The caller holds a Go value and a mode.
InitEnc ==
  /\ pc = "start"
  /\ mode \in Modes
  /\ data = <<>>
  /\ value \in Values
  /\ seed \in Seeds
  /\ res = None
  /\ res2 = None

\* The caller holds a JSON text and a mode.
InitJSON ==
  /\ pc = "start"
  /\ mode \in Modes
  /\ data \in JSONInputs
  /\ value = GoNil
  /\ seed \in Seeds
  /\ res = None
  /\ res2 = None

\* rison.Decode(data, mode)
CallDecode ==
  /\ pc = "start"
  /\ res' = Decode(data, mode)
  /\ pc' = "Decode"
  /\ UNCHANGED <<mode, data, value, seed, res2>>

\* rison.ToJSON(data, mode)
CallToJSON ==
  /\ pc = "start"
  /\ res' = ToJSON(data, mode)
  /\ pc' = "ToJSON"
  /\ UNCHANGED <<mode, data, value, seed, res2>>

\* rison.Encode(value, mode)
CallEncode ==
  /\ pc = "start"
  /\ res' = Encode(value, mode)
  /\ pc' = "Encode"
  /\ UNCHANGED <<mode, data, value, seed, res2>>

\* rison.Decode(r, mode) on the text r that Encode returned.
CallDecodeEncoded ==
  /\ pc = "Encode"
  /\ res.err.nil
  /\ res2' = Decode(res.out, mode)
  /\ pc' = "Encode.Decode"
  /\ UNCHANGED <<mode, data, value, seed, res>>

\* rison.FromJSON(data, mode)
CallFromJSON ==
  /\ pc = "start"
  /\ res' = FromJSON(data, mode)
  /\ pc' = "FromJSON"
  /\ UNCHANGED <<mode, data, value, seed, res2>>

\* rison.ToJSON(r, mode) on the text r that FromJSON returned.
CallToJSONEncoded ==
  /\ pc = "FromJSON"
  /\ res.err.nil
  /\ res2' = ToJSON(res.out, mode)
  /\ pc' = "FromJSON.ToJSON"
  /\ UNCHANGED <<mode, data, value, seed, res>>

Next == CallDecode \/ CallToJSON

NextEnc == CallEncode \/ CallDecodeEncoded

NextJSON == CallFromJSON \/ CallToJSONEncoded

Spec == Init /\ [][Next]_vars

SpecNum == InitNum /\ [][Next]_vars

SpecEnc == InitEnc /\ [][NextEnc]_vars

SpecJSON == InitJSON /\ [][NextJSON]_vars

(***************************************************************************)
(* The properties.                                                         *)
(***************************************************************************)

\* C1: round trip in the Rison mode.  For every value built from null,
\* booleans, numbers, strings, arrays and string-keyed objects, Encode(v, Rison)
\* succeeds, and Decode of the text it returns, under Rison, succeeds and
\* returns a value equal to v (maps are compared as maps, so the order of the
\* keys plays no part).
C1_RoundTripRison ==
  mode = Rison =>
    /\ pc = "Encode" => (res.err.nil /\ ~res.outnil)
    /\ pc = "Encode.Decode" => (~res2.panic /\ res2.err.nil /\ res2.v = value)

\* C1 is exercised: an object of two keys, one of them holding an array or a
\* string that needs quoting, has been encoded and decoded back.
C1_Witness ==
  /\ mode = Rison
  /\ pc = "Encode.Decode"
  /\ value.k = "map"
  /\ Cardinality(DOMAIN value.v) = 2
  /\ \E k \in DOMAIN value.v : value.v[k] \in {GoSlice(<<GoString(<<"b">>)>>), GoString(<<"'", " ">>)}
  /\ res2.v = value

\* The keys of every object of a JSON tree stand in strictly ascending
\* byte-wise order.
RECURSIVE KeysAscending(_)
KeysAscending(t) ==
  CASE t.k = "object" ->
         /\ \A i \in 1 .. Len(t.v) - 1 : StrLess(t.v[i][1], t.v[i + 1][1])
         /\ \A i \in 1 .. Len(t.v) : KeysAscending(t.v[i][2])
    [] t.k = "slice" -> \A i \in 1 .. Len(t.v) : KeysAscending(t.v[i])
    [] OTHER -> TRUE

\* C2: in every text FromJSON (and so Encode) returns, the keys of each
\* object, at every nesting level, appear in strictly ascending byte-wise order
\* of their string value, whatever the order of the keys in the input and
\* whatever order the map hands them out in.  The keys are read back from the
\* returned text by ToJSON, which writes the pairs in the order of the text.
C2_KeysAscending ==
  pc = "FromJSON.ToJSON" =>
    /\ ~res2.panic
    /\ res2.err.nil
    /\ KeysAscending(ParseJSON(res2.j).v)

\* C2 is exercised: a JSON object whose two keys are written in descending
\* order, handed out by the map in descending order, has been encoded.
C2_Witness ==
  /\ pc = "FromJSON.ToJSON"
  /\ seed = 1
  /\ ParseJSON(data).v.k = "object"
  /\ Len(ParseJSON(data).v.v) = 2
  /\ StrLess(ParseJSON(data).v.v[2][1], ParseJSON(data).v.v[1][1])
  /\ Len(ParseJSON(res2.j).v.v) = 2

\* Two calls of Decode end alike: both panic, both fail, or both return the
\* same value.
SameOutcome(a, b) ==
  /\ a.panic = b.panic
  /\ a.err.nil = b.err.nil
  /\ a.v = b.v

\* C3: Decode(s, ORison) returns the same value as, and fails exactly when,
\* Decode("(" + s + ")", Rison); Decode(s, ARison) agrees in the same way with
\* Decode("!(" + s + ")", Rison).
C3_ModeWrapping ==
  pc = "Decode" =>
    /\ mode = ORison => SameOutcome(res, Decode(<<"(">> \o data \o <<")">>, Rison))
    /\ mode = ARison => SameOutcome(res, Decode(<<"!", "(">> \o data \o <<")">>, Rison))

\* C3 is exercised: an array of two elements has been decoded in the array
\* mode.
C3_Witness ==
  /\ pc = "Decode"
  /\ mode = ARison
  /\ res.err.nil
  /\ res.v.k = "slice"
  /\ Len(res.v.v) = 2

\* The value is an object, is an array, is empty.
IsObject(v) == v.k = "map"

IsArray(v) == v.k = "slice"

IsEmpty(v) == IF v.k = "map" THEN DOMAIN v.v = {} ELSE v.v = <<>>

\* What C4 says of the value v encoded and decoded under the mode m, whose
\* text under Rison opens with n bytes more.
C4_RoundTripIn(m, n) ==
  LET full == Encode(value, Rison)
  IN  /\ pc = "Encode" =>
           /\ res.err.nil
           /\ ~res.outnil
           /\ res.out = SubSeq(full.out, n + 1, Len(full.out) - 1)
      /\ pc = "Encode.Decode" => (~res2.panic /\ res2.err.nil /\ res2.v = value)

\* C4 as amended: for every object value that is not empty, Encode(v, ORison)
\* succeeds, equals Encode(v, Rison) without its first and last byte, and
\* Decode of it under ORison equals v; likewise for every array value that is
\* not empty under ARison, with the leading "!(" and the trailing ")" removed.
\* For the empty object under ORison and the empty array under ARison, Encode
\* returns an error and no text.
C4_RoundTripModes ==
  /\ (mode = ORison /\ IsObject(value) /\ ~IsEmpty(value)) => C4_RoundTripIn(ORison, 1)
  /\ (mode = ARison /\ IsArray(value) /\ ~IsEmpty(value)) => C4_RoundTripIn(ARison, 2)
  /\ (pc = "Encode" /\ mode = ORison /\ IsObject(value) /\ IsEmpty(value)) =>
       (~res.err.nil /\ res.outnil)
  /\ (pc = "Encode" /\ mode = ARison /\ IsArray(value) /\ IsEmpty(value)) =>
       (~res.err.nil /\ res.outnil)

\* C4 as stated: the round trip in the object and array modes holds of every
\* object and of every array, the empty ones included.
C4_AsStated ==
  /\ (mode = ORison /\ IsObject(value)) => C4_RoundTripIn(ORison, 1)
  /\ (mode = ARison /\ IsArray(value)) => C4_RoundTripIn(ARison, 2)

\* C4 is exercised: an array of two elements has been encoded in the array
\* mode and decoded back.
C4_Witness ==
  /\ mode = ARison
  /\ pc = "Encode.Decode"
  /\ IsArray(value)
  /\ Len(value.v) = 2
  /\ res2.v = value

\* C5: Encode and FromJSON under ORison return an error and no text whenever
\* the root value is not an object, and under ARison whenever the root is not
\* an array; under Rison a null root encodes to "!n".
C5_ModeMismatch ==
  (pc = "FromJSON" /\ Unmarshal(data).ok) =>
    /\ (mode = ORison /\ Unmarshal(data).v.k # "map") => (~res.err.nil /\ res.outnil)
    /\ (mode = ARison /\ Unmarshal(data).v.k # "slice") => (~res.err.nil /\ res.outnil)
    /\ (mode = Rison /\ Unmarshal(data).v.k = "nil") =>
         (res.err.nil /\ res.out = <<"!", "n">>)

\* The bytes the statement of C6 lists.
C6_NotLater == {" ", "'", "!", ":", "(", ")", ",", "*", "@", "$"}

C6_NotFirst == C6_NotLater \cup Digits \cup {"-"}

C6_Bare(s) ==
  /\ s # <<>>
  /\ s[1] \notin C6_NotFirst
  /\ \A i \in 2 .. Len(s) : s[i] \notin C6_NotLater

RECURSIVE C6_Escaped(_)
C6_Escaped(s) ==
  IF s = <<>> THEN <<>>
  ELSE (IF Head(s) \in {"'", "!"} THEN <<"!", Head(s)>> ELSE <<Head(s)>>) \o C6_Escaped(Tail(s))

C6_Text(s) == IF C6_Bare(s) THEN s ELSE <<"'">> \o C6_Escaped(s) \o <<"'">>

RECURSIVE C7_Digits(_)
C7_Digits(s) ==
  IF s # <<>> /\ Head(s) \in Digits THEN 1 + C7_Digits(Tail(s)) ELSE 0

\* s without its first n bytes.
C7_Drop(s, n) == SubSeq(s, n + 1, Len(s))

\* s is (e-?[0-9]+)? and nothing more.
C7_MatchesExp(s) ==
  \/ s = <<>>
  \/ /\ Head(s) = "e"
     /\ LET r == IF Len(s) > 1 /\ s[2] = "-" THEN C7_Drop(s, 2) ELSE C7_Drop(s, 1)
        IN  r # <<>> /\ C7_Digits(r) = Len(r)

\* s is (.[0-9]+)?(e-?[0-9]+)? and nothing more; the dot is the byte '.'.
C7_MatchesFrac(s) ==
  IF s # <<>> /\ Head(s) = "."
    THEN /\ C7_Digits(Tail(s)) >= 1
         /\ C7_MatchesExp(C7_Drop(Tail(s), C7_Digits(Tail(s))))
    ELSE C7_MatchesExp(s)

\* s is (0|[1-9][0-9]*)(.[0-9]+)?(e-?[0-9]+)? and nothing more.
C7_MatchesInt(s) ==
  /\ C7_Digits(s) >= 1
  /\ Head(s) = "0" => C7_Digits(s) = 1
  /\ C7_MatchesFrac(C7_Drop(s, C7_Digits(s)))

\* s matches -?(0|[1-9][0-9]*)(.[0-9]+)?(e-?[0-9]+)?
C7_Matches(s) ==
  IF s # <<>> /\ Head(s) = "-" THEN C7_MatchesInt(Tail(s)) ELSE C7_MatchesInt(s)

\* The number s writes is within the range of a float64.
C7_InRange(s) == ParseFloat(s).ok

\* s holds the byte c followed by the byte d.
C7_HasPair(s, c, d) == \E i \in 1 .. Len(s) - 1 : s[i] = c /\ s[i + 1] = d

\* The parser as readValue leaves it when it calls parseNumber on the first
\* token of the text.
C7_AtNumber ==
  [NewParser(mode) EXCEPT !.string = Wrap(data, mode),
                          !.index = Len(Wrap(<<>>, mode)) + 1 - (IF mode = Rison THEN 0 ELSE 1)]

\* Decode has returned a number.
C7_Decoded == ~res.panic /\ res.err.nil /\ res.v.k = "float64"

\* The forms C7 lists as failing: a lone "-", a doubled or trailing '-', an
\* exponent written "e+", an uppercase 'E'.
C7_Listed ==
  \/ data = <<"-">>
  \/ C7_HasPair(data, "-", "-")
  \/ data[Len(data)] = "-"
  \/ C7_HasPair(data, "e", "+")
  \/ \E i \in 1 .. Len(data) : data[i] = "E"

\* C7 as amended: a token starting with '-' or a digit decodes as a number
\* exactly when the text scanned by the number lexer matches
\* -?(0|[1-9][0-9]*)(.[0-9]+)?(e-?[0-9]+)? and the number it writes is within
\* the range of a float64; so Decode of such a text under Rison returns a number
\* exactly when the whole text matches and is in range, and a lone "-", a
\* doubled or trailing '-', an exponent written "e+" and every uppercase 'E'
\* form make Decode fail.
C7_NumberAcceptance ==
  /\ pc # "start" =>
       (parseNumber(C7_AtNumber).err.nil
          <=> (C7_Matches(NumberText(C7_AtNumber)) /\ C7_InRange(NumberText(C7_AtNumber))))
  /\ (pc = "Decode" /\ mode = Rison) =>
       /\ C7_Decoded <=> (C7_Matches(data) /\ C7_InRange(data))
       /\ C7_Listed => ~res.err.nil

\* C7 as stated: the token decodes as a number exactly when the scanned text
\* matches the pattern.
C7_AsStated ==
  /\ pc # "start" =>
       (parseNumber(C7_AtNumber).err.nil <=> C7_Matches(NumberText(C7_AtNumber)))
  /\ (pc = "Decode" /\ mode = Rison) =>
       /\ C7_Decoded <=> C7_Matches(data)
       /\ C7_Listed => ~res.err.nil

\* C7 is exercised: a negative number with a negative exponent has been
\* decoded.
C7_Witness ==
  /\ pc = "Decode"
  /\ mode = Rison
  /\ data = <<"-", "9", "e", "-", "9">>
  /\ C7_Decoded

\* The kind under which errors.go files the message of a ParseError of
\* decoder.go, which itself holds only the message ("none" for an error that
\* is not a ParseError).
ErrTypeOf(err) ==
  LET f == err.Err.format
  IN  CASE "Err" \notin DOMAIN err -> "none"
        [] f = "rison must be a valid UTF-8 string" -> "Encoding"
        [] f = "empty expression" -> "EmptyString"
        [] f \in {"unmatched \"'\"", "unmatched \"!(\"", "unmatched \"(\""} -> "UnmatchedPair"
        [] f \in {"missing \",\"", "missing \":\"",
                  "missing \":\" or invalid type of object key"} -> "MissingCharacter"
        [] f = "\"!\" at end of input" -> "MissingCharacterAfterEscape"
        [] f = "extra \",\"" -> "ExtraCharacter"
        [] f = "extra character \"%c\" (0x%02X) after top-level value" ->
             "ExtraCharacterAfterRison"
        [] f = "unknown literal \"!%c\"" -> "InvalidLiteral"
        [] f = "invalid character \"%c\" (0x%02X)" -> "InvalidCharacter"
        [] f = "object key must be a string" -> "InvalidTypeOfObjectKey"
        [] f = "invalid string escape \"!%c\"" -> "InvalidStringEscape"
        [] f \in {"invalid number", "invalid number \"%s\""} -> "InvalidNumber"
        [] OTHER -> "Internal"

\* The arguments errors.go's message of the kind takes, where decoder.go has
\* them inside the message; each as fmt prints it.
ErrArgsOf(err) ==
  LET f == err.Err.format
  IN  CASE "Err" \notin DOMAIN err -> <<>>
        [] f = "unmatched \"'\"" -> <<"'">>
        [] f = "unmatched \"!(\"" -> <<"!(">>
        [] f = "unmatched \"(\"" -> <<"(">>
        [] f = "missing \",\"" -> <<",">>
        [] f \in {"missing \":\"", "missing \":\" or invalid type of object key"} -> <<":">>
        [] f = "extra \",\"" -> <<",">>
        [] f = "invalid number" -> <<"-">>
        [] f = "invalid number \"%s\"" -> <<Str(err.Err.args[1])>>
        [] err.Err.args = <<>> -> <<>>
        [] OTHER -> <<err.Err.args[1]>>

\* The ParseError with Type and Args that stands for a ParseError of
\* decoder.go, which holds the message in their place.
Typed(err) ==
  [Type |-> ErrTypeOf(err), Args |-> ErrArgsOf(err), Src |-> err.Src, Pos |-> err.Pos]

\* The error at the point of failure: the innermost Child that is a ParseError
\* (parseObject wraps the error of a key or of a value in one of its own).
RECURSIVE Cause(_)
Cause(err) ==
  IF err.Child.nil \/ "Err" \notin DOMAIN err.Child THEN err ELSE Cause(err.Child)

(***************************************************************************)
(* Concurrent calls.  Each call of ToJSON makes a parser and each call of  *)
(* FromJSON an encoder (decoder.go:27, encoder.go:272) and works on it     *)
(* alone, one statement group at a time; the calls are interleaved in any  *)
(* order.  Under SpecConc pc, mode, data, value and res hold one entry for *)
(* each call: its position, its mode, its operation and input, the parser  *)
(* and the encoder it made, and what it returned.                          *)
(***************************************************************************)

\* The calls that run together.
Calls == {1, 2}

\* One parser and one encoder for the whole package.
ObjectOfShared(c) == 1

\* The object the call c works on: the one it made.
ObjectOf(c) == c

\* What a call is asked to do.
ConcInputs ==
  {[op |-> "ToJSON", in |-> t] :
     t \in {<<"(", "a", ":", "1", ")">>, <<"a", ":", "1">>, <<"!", "t">>, <<"1", ",", "a">>,
            <<"(">>, <<"xFF">>}}
    \cup
  {[op |-> "FromJSON", in |-> t] :
     t \in {<<"{", "\"", "a", "\"", ":", "1", "}">>, <<"[", "1", ",", "n", "u", "l", "l", "]">>,
            <<"n", "u", "l">>}}

InitConc ==
  /\ pc = [c \in Calls |-> "start"]
  /\ mode \in [Calls -> Modes]
  /\ data \in [Calls -> ConcInputs]
  /\ value = [c \in Calls |-> [p |-> None, e |-> None]]
  /\ seed \in Seeds
  /\ res = [c \in Calls |-> None]
  /\ res2 = None

\* &parser{Mode: m} and &encoder{Mode: m}
MakeObject(c) ==
  /\ pc[c] = "start"
  /\ value' = IF data[c].op = "ToJSON"
                THEN [value EXCEPT ![ObjectOf(c)].p = NewParser(mode[c])]
                ELSE [value EXCEPT ![ObjectOf(c)].e = [Mode |-> mode[c], buffer |-> <<>>]]
  /\ pc' = [pc EXCEPT ![c] = IF data[c].op = "ToJSON" THEN "parse" ELSE "encode"]
  /\ UNCHANGED <<mode, data, seed, res, res2>>

\* parse, to the assignment of p.buffer (decoder.go:151-164).
ParseWrap(c) ==
  /\ pc[c] = "parse"
  /\ IF ~utf8Valid(data[c].in)
       THEN /\ res' = [res EXCEPT ![c] =
                         [panic |-> FALSE, j |-> <<>>, jnil |-> TRUE,
                          err |-> errorf(value[ObjectOf(c)].p, 0, NilError,
                                         "rison must be a valid UTF-8 string", <<>>)]]
            /\ pc' = [pc EXCEPT ![c] = "done"]
            /\ UNCHANGED value
       ELSE /\ value' = [value EXCEPT ![ObjectOf(c)].p =
                           [@ EXCEPT !.string = Wrap(data[c].in, value[ObjectOf(c)].p.Mode),
                                     !.index = 0, !.buffer = <<>>]]
            /\ pc' = [pc EXCEPT ![c] = "readValue"]
            /\ UNCHANGED res
  /\ UNCHANGED <<mode, data, seed, res2>>

\* parse: _, err := p.readValue() (decoder.go:165-168).
ParseReadValue(c) ==
  /\ pc[c] = "readValue"
  /\ LET Got(r) ==
           IF r.panic \/ ~r.err.nil
             THEN /\ res' = [res EXCEPT ![c] =
                               [panic |-> r.panic, j |-> <<>>, jnil |-> TRUE,
                                err |-> IF r.panic THEN NilError ELSE r.err]]
                  /\ pc' = [pc EXCEPT ![c] = "done"]
                  /\ UNCHANGED value
             ELSE /\ value' = [value EXCEPT ![ObjectOf(c)].p = r.p]
                  /\ pc' = [pc EXCEPT ![c] = "end"]
                  /\ UNCHANGED res
     IN  Got(readValue(value[ObjectOf(c)].p))
  /\ UNCHANGED <<mode, data, seed, res2>>

\* parse, from j := p.buffer.Bytes() (decoder.go:169-177).
ParseEnd(c) ==
  /\ pc[c] = "end"
  /\ LET End(p) ==
           res' = [res EXCEPT ![c] =
                     [panic |-> FALSE, j |-> p.buffer, jnil |-> FALSE,
                      err |-> IF p.index < Len(p.string)
                                THEN errorf(p, 0, NilError,
                                            "extra character \"%c\" (0x%02X) after top-level value",
                                            <<At(p.string, p.index), At(p.string, p.index)>>)
                                ELSE NilError]]
     IN  End(value[ObjectOf(c)].p)
  /\ pc' = [pc EXCEPT ![c] = "done"]
  /\ UNCHANGED <<mode, data, value, seed, res2>>

\* encode, to err = e.encodeValue("", vv) (encoder.go:316-340).
EncodeValueStep(c) ==
  /\ pc[c] = "encode"
  /\ LET Fail(err) == /\ res' = [res EXCEPT ![c] = [out |-> <<>>, outnil |-> TRUE, err |-> err]]
                      /\ pc' = [pc EXCEPT ![c] = "done"]
                      /\ UNCHANGED value
         Written(e, w) ==
           IF ~w.err.nil THEN Fail(w.err)
           ELSE /\ value' = [value EXCEPT ![ObjectOf(c)].e = [e EXCEPT !.buffer = w.buf]]
                /\ pc' = [pc EXCEPT ![c] = "convert"]
                /\ UNCHANGED res
         Checked(e, vv, chk) ==
           IF ~chk.nil THEN Fail(chk)
           ELSE IF data[c].in = <<"n", "u", "l", "l">>
             THEN /\ res' = [res EXCEPT ![c] =
                               [out |-> <<"!", "n">>, outnil |-> FALSE, err |-> NilError]]
                  /\ pc' = [pc EXCEPT ![c] = "done"]
                  /\ UNCHANGED value
           ELSE IF vv.kind = "Invalid"
             THEN Fail(EncodeError("invalid JSON: %s", <<data[c].in>>))
           ELSE Written(e, encodeValue(<<>>, vv))
         Parsed(e, u) ==
           IF ~u.ok THEN Fail(JSONError)
           ELSE Checked(e, ValueOf(u.v), checkKindMatchesMode(ValueOf(u.v).kind, e.Mode))
     IN  Parsed(value[ObjectOf(c)].e, Unmarshal(data[c].in))
  /\ UNCHANGED <<mode, data, seed, res2>>

\* encode: return convertRisonToMode(r, e.Mode) (encoder.go:342-344).
EncodeConvert(c) ==
  /\ pc[c] = "convert"
  /\ res' = [res EXCEPT ![c] =
               convertRisonToMode(value[ObjectOf(c)].e.buffer, value[ObjectOf(c)].e.Mode)]
  /\ pc' = [pc EXCEPT ![c] = "done"]
  /\ UNCHANGED <<mode, data, value, seed, res2>>

NextConc ==
  \E c \in Calls :
    \/ MakeObject(c)
    \/ ParseWrap(c)
    \/ ParseReadValue(c)
    \/ ParseEnd(c)
    \/ EncodeValueStep(c)
    \/ EncodeConvert(c)

SpecConc == InitConc /\ [][NextConc]_vars

\* What the call c returns when nothing else runs.
Alone(c) ==
  IF data[c].op = "ToJSON" THEN ToJSON(data[c].in, mode[c]) ELSE FromJSON(data[c].in, mode[c])

\* C26: however the steps of concurrent calls are interleaved, a call that
\* has returned has returned what the same call returns when run alone.
C26_ReEntrant ==
  \A c \in Calls : pc[c] = "done" => res[c] = Alone(c)

\* One call has returned while the other, given another input and another
\* mode, is between two of its steps.
C26_Witness ==
  /\ pc[1] = "done"
  /\ pc[2] \in {"readValue", "end", "convert"}
  /\ data[1] # data[2]
  /\ mode[1] # mode[2]
  /\ res[1] = Alone(1)
  /\ res[1].err.nil

(***************************************************************************)
(* The encoding of values the encoder cannot write: a caller hands Encode  *)
(* a value that holds one, and the test of the package hands it to         *)
(* encodeValue through reflect.ValueOf.                                    *)
(***************************************************************************)

\* The deepest place of a value the encoder cannot write.
MaxBadDepth == 2

\* A func, a uintptr, maps with integer keys and a map with the key 0.1.
BadLeaves ==
  {GoFunc, GoUintptr(1), GoIntMap(1 :> GoString(<<"a">>)),
   GoIntMap((1 :> GoNil) @@ (2 :> GoBool(TRUE))), GoFloatMap(1 :> GoString(<<>>))}

\* v as an element of a slice or of a map[string]interface{}.
BadNest(v) ==
  {GoSlice(<<v>>), GoSlice(<<GoBool(TRUE), v>>), GoMap(<<"a">> :> v),
   GoMap((<<"a">> :> GoNil) @@ (<<"b">> :> v))}

RECURSIVE BadAt(_)
BadAt(d) == IF d = 0 THEN BadLeaves ELSE UNION {BadNest(v) : v \in BadAt(d - 1)}

BadValues == UNION {BadAt(d) : d \in 0 .. MaxBadDepth}

\* The caller holds a value that the encoder cannot write, and a mode.
InitBad ==
  /\ pc = "start"
  /\ mode \in Modes
  /\ data = <<>>
  /\ value \in BadValues
  /\ seed \in Seeds
  /\ res = None
  /\ res2 = None

\* e.encodeValue("", reflect.ValueOf(v)) on an encoder with an empty buffer.
CallEncodeValue ==
  /\ pc = "start"
  /\ res' = encodeValue(<<>>, ValueOf(value))
  /\ pc' = "encodeValue"
  /\ UNCHANGED <<mode, data, value, seed, res2>>

NextBad == CallEncode \/ CallEncodeValue

SpecBad == InitBad /\ [][NextBad]_vars

(***************************************************************************)
(* quote.go, with net/url's QueryEscape and QueryUnescape and regexp's     *)
(* ReplaceAllStringFunc.  A string is the sequence of its bytes.           *)
(***************************************************************************)

\* net/url: upperhex
upperhex == <<"0", "1", "2", "3", "4", "5", "6", "7", "8", "9", "A", "B", "C", "D", "E", "F">>

\* shouldEscape had let '&' through.
shouldEscapeKeepAmp(c) ==
  ~(\/ Ord(c) >= 97 /\ Ord(c) <= 122
    \/ Ord(c) >= 65 /\ Ord(c) <= 90
    \/ Ord(c) >= 48 /\ Ord(c) <= 57
    \/ c \in {"-", "_", ".", "~", "&"})

\* net/url: shouldEscape(c, encodeQueryComponent)
shouldEscape(c) ==
  ~(\/ Ord(c) >= 97 /\ Ord(c) <= 122
    \/ Ord(c) >= 65 /\ Ord(c) <= 90
    \/ Ord(c) >= 48 /\ Ord(c) <= 57
    \/ c \in {"-", "_", ".", "~"})

\* url.QueryEscape(s)
RECURSIVE QueryEscape(_)
QueryEscape(s) ==
  IF s = <<>> THEN <<>>
  ELSE (IF s[1] = " " THEN <<"+">>
        ELSE IF shouldEscape(s[1])
          THEN <<"%", upperhex[(Ord(s[1]) \div 16) + 1], upperhex[(Ord(s[1]) % 16) + 1]>>
        ELSE <<s[1]>>)
       \o QueryEscape(Tail(s))

\* net/url: ishex(c)
ishex(c) == HexVal(c) >= 0

\* url.QueryUnescape(s): the string and whether it is returned without an
\* error.
RECURSIVE QueryUnescapeFrom(_, _, _)
QueryUnescapeFrom(s, i, acc) ==
  IF i > Len(s) THEN [ok |-> TRUE, s |-> acc]
  ELSE IF s[i] = "%"
    THEN IF i + 2 <= Len(s) /\ ishex(s[i + 1]) /\ ishex(s[i + 2])
              /\ HasChr(HexVal(s[i + 1]) * 16 + HexVal(s[i + 2]))
           THEN QueryUnescapeFrom(s, i + 3,
                                  Append(acc, Chr(HexVal(s[i + 1]) * 16 + HexVal(s[i + 2]))))
           ELSE [ok |-> FALSE, s |-> <<>>]
  ELSE QueryUnescapeFrom(s, i + 1, Append(acc, IF s[i] = "+" THEN " " ELSE s[i]))

QueryUnescape(s) == QueryUnescapeFrom(s, 1, <<>>)

\* escapeRx matches s at i: '%' and two hexadecimal digits.
escapeRx(s, i) == s[i] = "%" /\ i + 2 <= Len(s) /\ ishex(s[i + 1]) /\ ishex(s[i + 2])

\* escapeTable had held "%2B": "+" in place of "%20": "+".
escapeTablePlus(m) ==
  CASE m = <<"%", "7", "E">> -> <<"~">>
    [] m = <<"%", "2", "1">> -> <<"!">>
    [] m = <<"%", "2", "A">> -> <<"*">>
    [] m = <<"%", "2", "8">> -> <<"(">>
    [] m = <<"%", "2", "9">> -> <<")">>
    [] m = <<"%", "2", "D">> -> <<"-">>
    [] m = <<"%", "5", "F">> -> <<"_">>
    [] m = <<"%", "2", "E">> -> <<".">>
    [] m = <<"%", "2", "C">> -> <<",">>
    [] m = <<"%", "3", "A">> -> <<":">>
    [] m = <<"%", "4", "0">> -> <<"@">>
    [] m = <<"%", "2", "4">> -> <<"$">>
    [] m = <<"%", "2", "7">> -> <<"'">>
    [] m = <<"%", "2", "F">> -> <<"/">>
    [] m = <<"%", "2", "B">> -> <<"+">>
    [] OTHER -> m

\* escapeTable[m], and m itself for an m the table does not have.
escapeTable(m) ==
  CASE m = <<"%", "7", "E">> -> <<"~">>
    [] m = <<"%", "2", "1">> -> <<"!">>
    [] m = <<"%", "2", "A">> -> <<"*">>
    [] m = <<"%", "2", "8">> -> <<"(">>
    [] m = <<"%", "2", "9">> -> <<")">>
    [] m = <<"%", "2", "D">> -> <<"-">>
    [] m = <<"%", "5", "F">> -> <<"_">>
    [] m = <<"%", "2", "E">> -> <<".">>
    [] m = <<"%", "2", "C">> -> <<",">>
    [] m = <<"%", "3", "A">> -> <<":">>
    [] m = <<"%", "4", "0">> -> <<"@">>
    [] m = <<"%", "2", "4">> -> <<"$">>
    [] m = <<"%", "2", "7">> -> <<"'">>
    [] m = <<"%", "2", "F">> -> <<"/">>
    [] m = <<"%", "2", "0">> -> <<"+">>
    [] OTHER -> m

\* escapeRx.ReplaceAllStringFunc(s, ...): the matches from left to right,
\* none overlapping another.
RECURSIVE ReplaceAllStringFunc(_, _)
ReplaceAllStringFunc(s, i) ==
  IF i > Len(s) THEN <<>>
  ELSE IF escapeRx(s, i)
    THEN escapeTable(<<s[i], s[i + 1], s[i + 2]>>) \o ReplaceAllStringFunc(s, i + 3)
  ELSE <<s[i]>> \o ReplaceAllStringFunc(s, i + 1)

\* QuoteString(s)
QuoteString(s) == ReplaceAllStringFunc(QueryEscape(s), 1)

\* Quote(s): []byte(QuoteString(string(s))); the conversions copy the bytes.
Quote(s) == [i \in 1 .. Len(QuoteString([j \in 1 .. Len(s) |-> s[j]])) |->
               QuoteString([j \in 1 .. Len(s) |-> s[j]])[i]]

\* The longest text over QuoteAlphabet that is quoted.
MaxQuoteLen == 3

\* Bytes that meet the escapes: the marks of an escape, a hexadecimal digit of
\* each case, kept and rewritten characters, and a byte above 127.
QuoteAlphabet == {"%", "+", " ", "2", "0", "A", "f", "~", "/", "&", "xC3"}

\* The strings of the tests (the bytes below 128 in order, in runs of 16; the
\* characters of ExampleQuote), every single byte, and the short texts.
QuoteInputs ==
  {[i \in 1 .. 16 |-> Chr(16 * k + i - 1)] : k \in 0 .. 7}
    \cup
  {<<"~", "!", "*", "(", ")", "-", "_", ".", ",", ":", "@", "$", "'", "/", " ", "\"", "#",
     "%", "&", "+", ";", "<", "=", ">", "?", "[", "\\", "]", "^", "x60", "{", "|", "}">>}
    \cup {<<c>> : c \in ByteSet}
    \cup Texts(QuoteAlphabet, MaxQuoteLen)

\* The caller holds a string.
InitQuote ==
  /\ pc = "start"
  /\ mode = Rison
  /\ data \in QuoteInputs
  /\ value = GoNil
  /\ seed = 0
  /\ res = None
  /\ res2 = None

\* rison.QuoteString(s)
CallQuoteString ==
  /\ pc = "start"
  /\ res' = [out |-> QuoteString(data)]
  /\ pc' = "QuoteString"
  /\ UNCHANGED <<mode, data, value, seed, res2>>

\* rison.Quote([]byte(s))
CallQuote ==
  /\ pc = "start"
  /\ res' = [out |-> Quote(data)]
  /\ pc' = "Quote"
  /\ UNCHANGED <<mode, data, value, seed, res2>>

\* url.QueryUnescape(qs) on what QuoteString returned.
CallQueryUnescape ==
  /\ pc = "QuoteString"
  /\ res2' = QueryUnescape(res.out)
  /\ pc' = "QuoteString.QueryUnescape"
  /\ UNCHANGED <<mode, data, value, seed, res>>

NextQuote == CallQuoteString \/ CallQuote \/ CallQueryUnescape

SpecQuote == InitQuote /\ [][NextQuote]_vars

(***************************************************************************)
(* The rendering of the error a decode returned: the caller decodes a text *)
(* that breaks off somewhere and asks the error for its message in a       *)
(* language.                                                               *)
(***************************************************************************)

\* The longest run of identifier bytes on either side of the break.
MaxRun == 7

PosLetters == <<"a", "b", "c", "d", "e", "f", "g", "h">>

\* n identifier bytes, the k-th one the letter after PosLetters[from].
PosRun(from, n) == [k \in 1 .. n |-> PosLetters[((from + k - 1) % Len(PosLetters)) + 1]]

\* What stands between the two runs.
PosBreaks ==
  {<<>>, <<" ">>, <<"'">>, <<"(">>, <<":", "(", ")">>, <<",", ",">>, <<"xC3", "xA9", " ">>,
   <<"xFF">>}

\* Texts that fail at every distance from their ends.
PosInputs ==
  {PosRun(0, i) \o b \o PosRun(i, j) : i \in 0 .. MaxRun, j \in 0 .. MaxRun, b \in PosBreaks}

\* The language tags asked for: the two supported ones, an unsupported one and
\* the empty tag.
LangTags == {"en", "ja", "fr", ""}

\* The caller holds a text that breaks off and a mode.
InitPos ==
  /\ pc = "start"
  /\ mode \in Modes
  /\ data \in PosInputs
  /\ value = GoNil
  /\ seed = 0
  /\ res = None
  /\ res2 = None

\* err.(*ParseError).ErrorInLang(lang) on the error Decode returned or on the
\* error it wraps.
CallErrorInLang ==
  /\ pc = "Decode"
  /\ ~res.panic
  /\ ~res.err.nil
  /\ "Err" \in DOMAIN res.err
  /\ \E lang \in LangTags : \E e \in {res.err, Cause(res.err)} :
       res2' = [e |-> Typed(e), lang |-> lang, s |-> ErrorInLang(Typed(e), lang)]
  /\ pc' = "ErrorInLang"
  /\ UNCHANGED <<mode, data, value, seed, res>>

NextPos == CallDecode \/ CallErrorInLang

SpecPos == InitPos /\ [][NextPos]_vars

(***************************************************************************)
(* The rendering of a ParseError the caller holds: ParseError and its      *)
(* fields are exported, so the kind may be any ErrType, the ones without a *)
(* constant included.                                                      *)
(***************************************************************************)

\* The numbers of the kinds: those of the constants, the next one, a large one
\* and a negative one.
ErrNumbers == (0 .. Len(ErrTypes)) \cup {99, 0 - 1}

\* The argument a message of the kind takes, as the decoder gives it.
ErrArgsFor(kind) ==
  CASE kind = "Internal" -> <<"x">>
    [] kind = "UnmatchedPair" -> <<"!(">>
    [] kind \in {"MissingCharacter", "ExtraCharacter", "ExtraCharacterAfterRison",
                 "InvalidLiteral", "InvalidCharacter", "InvalidStringEscape"} -> <<",">>
    [] kind = "InvalidNumber" -> <<"1e">>
    [] OTHER -> <<>>

\* Sources and positions: an empty source, the first, a middle and the last
\* byte, the end, and the middle of a source longer than the two windows.
ErrPlaces ==
  {[Src |-> <<>>, Pos |-> 0], [Src |-> <<"(">>, Pos |-> 0], [Src |-> <<"(">>, Pos |-> 1],
   [Src |-> <<"!", "(", "1", ",", ",", "2", ")">>, Pos |-> 4],
   [Src |-> PosRun(0, MaxRun) \o <<" ">> \o PosRun(0, MaxRun), Pos |-> MaxRun]}

ParseErrors ==
  {[Type |-> ErrType(n), Args |-> ErrArgsFor(ErrType(n)), Src |-> w.Src, Pos |-> w.Pos] :
     n \in ErrNumbers, w \in ErrPlaces}

\* The caller holds a ParseError.
InitErr ==
  /\ pc = "start"
  /\ mode = Rison
  /\ data = <<>>
  /\ value \in ParseErrors
  /\ seed = 0
  /\ res = None
  /\ res2 = None

\* e.Error()
CallError ==
  /\ pc = "start"
  /\ res' = [s |-> Error(value)]
  /\ pc' = "e.Error"
  /\ UNCHANGED <<mode, data, value, seed, res2>>

\* e.ErrorInLang(lang)
CallErrorInLangOf ==
  /\ pc = "start"
  /\ \E lang \in LangTags : res' = [lang |-> lang, s |-> ErrorInLang(value, lang)]
  /\ pc' = "e.ErrorInLang"
  /\ UNCHANGED <<mode, data, value, seed, res2>>

NextErr == CallError \/ CallErrorInLangOf

SpecErr == InitErr /\ [][NextErr]_vars

\* A call of Decode or ToJSON has failed: it returned an error or panicked.
Failed(r) == r.panic \/ ~r.err.nil

\* s[i..] holds a whitespace byte outside a quoted string; q tells whether
\* s[i] is inside one.
RECURSIVE C8_WhitespaceFrom(_, _, _)
C8_WhitespaceFrom(s, i, q) ==
  IF i > Len(s) THEN FALSE
  ELSE IF q
    THEN IF s[i] = "'" THEN C8_WhitespaceFrom(s, i + 1, FALSE)
         ELSE IF s[i] = "!" THEN C8_WhitespaceFrom(s, i + 2, TRUE)
         ELSE C8_WhitespaceFrom(s, i + 1, TRUE)
  ELSE IF s[i] \in {" ", "\t", "\n", "\r", "\f"} THEN TRUE
  ELSE C8_WhitespaceFrom(s, i + 1, s[i] = "'")

\* C8: whitespace is never accepted outside quoted strings.  For every call of
\* Decode and of ToJSON (which leave SkipWhitespaces off), an input that holds a
\* space, tab, newline, carriage return or form feed outside a quoted string
\* fails to decode.
C8_NoWhitespace ==
  (pc \in {"Decode", "ToJSON"} /\ C8_WhitespaceFrom(data, 1, FALSE)) => Failed(res)

\* s[i..], the inside of a quoted string, ends right after an escape '!'.
RECURSIVE C9_EndsAfterEscape(_, _)
C9_EndsAfterEscape(s, i) ==
  IF i > Len(s) THEN FALSE
  ELSE IF s[i] = "'" THEN FALSE
  ELSE IF s[i] = "!" THEN (i = Len(s) \/ C9_EndsAfterEscape(s, i + 2))
  ELSE C9_EndsAfterEscape(s, i + 1)

\* C9: a quoted string whose input ends immediately after the escape character
\* '!' (for example "'!") makes Decode return a ParseError of the kind
\* MissingCharacterAfterEscape; no byte beyond the end of the input is read, so
\* the call does not panic and does not take the byte after the input for the
\* escaped one.
C9_EscapeAtEnd ==
  (pc = "Decode" /\ data # <<>> /\ data[1] = "'" /\ C9_EndsAfterEscape(data, 2)) =>
    /\ ~res.panic
    /\ ~res.err.nil
    /\ ErrTypeOf(res.err) = "MissingCharacterAfterEscape"

\* C10: invalid UTF-8 input makes Decode and ToJSON fail, in every mode, with
\* the Encoding error reported at position 0 (ParseError.Pos = 0), before any
\* parsing takes place.
C10_InvalidUTF8 ==
  (pc \in {"Decode", "ToJSON"} /\ ~utf8Valid(data)) =>
    /\ ~res.panic
    /\ ~res.err.nil
    /\ ErrTypeOf(res.err) = "Encoding"
    /\ res.err.Pos = 0


\* The parser as parse hands it to readValue for the text rison.
C11_Start(rison, m) ==
  [NewParser(m) EXCEPT !.string = Wrap(rison, m), !.index = 0, !.buffer = <<>>]

\* What C11 says of the outcome r of a call whose top-level value was read as t.
C11_Consumed(t, r) ==
  /\ (~t.panic /\ t.err.nil /\ t.p.index < Len(t.p.string)) =>
       /\ ~r.panic
       /\ ~r.err.nil
       /\ ErrTypeOf(r.err) = "ExtraCharacterAfterRison"
       /\ r.err.Err.args = <<At(t.p.string, t.p.index), At(t.p.string, t.p.index)>>
  /\ (~r.panic /\ r.err.nil) =>
       (~t.panic /\ t.err.nil /\ t.p.index = Len(t.p.string))

C12_Dedicated(t, r) ==
  (/\ ~t.panic
   /\ t.err.nil
   /\ t.typ = nodeType_number
   /\ t.p.index < Len(t.p.string)
   /\ At(t.p.string, t.p.index) = "E") =>
    (~r.panic /\ ~r.err.nil /\ ErrTypeOf(r.err) = "InvalidLargeExp")

\* C12: when the top-level value is a number and the first unconsumed byte is
\* an uppercase 'E' (1E30, 1.5E2), Decode and ToJSON fail with the dedicated
\* InvalidLargeExp error, not with the generic extra-character error.
C12_LargeExp ==
  (pc \in {"Decode", "ToJSON"} /\ utf8Valid(data)) =>
    C12_Dedicated(readValue(C11_Start(data, mode)), res)

\* The bytes that end an identifier, as C13 lists them.
C13_Reserved == {" ", "'", "!", ":", "(", ")", ",", "*", "@", "$"}

\* The index (from 1) of the first byte of s at or after i that is reserved;
\* Len(s) + 1 when there is none.
RECURSIVE C13_RunEnd(_, _)
C13_RunEnd(s, i) ==
  IF i > Len(s) THEN i
  ELSE IF s[i] \in C13_Reserved THEN i
  ELSE C13_RunEnd(s, i + 1)

\* The longest run of bytes that starts s and holds no reserved byte.
C13_Run(s) == SubSeq(s, 1, C13_RunEnd(s, 1) - 1)

\* s starts with a byte that may start an identifier.
C13_StartsIdentifier(s) ==
  s # <<>> /\ s[1] \notin C13_Reserved \cup Digits \cup {"-"}

C14_AtRoot(s, r, decoded) ==
  IF Len(s) = 1
    THEN ~r.panic /\ ~r.err.nil /\ ErrTypeOf(r.err) = "MissingCharacterAfterEscape"
  ELSE IF s[2] \in {"t", "f", "n"}
    THEN IF Len(s) = 2
           THEN /\ ~r.panic
                /\ r.err.nil
                /\ decoded =>
                     r.v = (CASE s[2] = "t" -> GoBool(TRUE)
                              [] s[2] = "f" -> GoBool(FALSE)
                              [] OTHER -> GoNil)
                /\ ~decoded =>
                     r.j = (CASE s[2] = "t" -> <<"t", "r", "u", "e">>
                              [] s[2] = "f" -> <<"f", "a", "l", "s", "e">>
                              [] OTHER -> <<"n", "u", "l", "l">>)
           ELSE ~r.panic /\ ~r.err.nil /\ ErrTypeOf(r.err) = "ExtraCharacterAfterRison"
  ELSE IF s[2] = "("
    THEN ~r.panic =>
           /\ (r.err.nil /\ decoded) => r.v.k = "slice"
           /\ (r.err.nil /\ ~decoded) => r.j[1] = "["
           /\ ~r.err.nil =>
                ErrTypeOf(r.err) \notin {"InvalidLiteral", "MissingCharacterAfterEscape"}
                  \/ r.err.Pos > 1
  ELSE /\ ~r.panic
       /\ ~r.err.nil
       /\ ErrTypeOf(r.err) = "InvalidLiteral"
       /\ r.err.Err.args = <<s[2]>>

\* What C14 says of the outcome r of decoding s, which starts with '!', as the
\* first element of the array of the ARison mode.
C14_AsElement(s, r) ==
  /\ s \in {<<"!", "t">>, <<"!", "f">>, <<"!", "n">>} =>
       /\ ~r.panic
       /\ r.err.nil
       /\ r.v = GoSlice(<<CASE s[2] = "t" -> GoBool(TRUE)
                            [] s[2] = "f" -> GoBool(FALSE)
                            [] OTHER -> GoNil>>)
  /\ (Len(s) >= 2 /\ s[2] \notin {"t", "f", "n", "("}) =>
       (~r.panic /\ ~r.err.nil /\ ErrTypeOf(r.err) = "InvalidLiteral"
          /\ r.err.Err.args = <<s[2]>>)

RECURSIVE C15_Scan(_, _, _)
C15_Scan(s, i, acc) ==
  IF i > Len(s) THEN [how |-> "unmatched", text |-> acc, end |-> i, c |-> ""]
  ELSE IF s[i] = "'" THEN [how |-> "closed", text |-> acc, end |-> i, c |-> ""]
  ELSE IF s[i] = "!"
    THEN IF i + 1 > Len(s) THEN [how |-> "unmatched", text |-> acc, end |-> i, c |-> ""]
         ELSE IF s[i + 1] \in {"!", "'"} THEN C15_Scan(s, i + 2, Append(acc, s[i + 1]))
         ELSE [how |-> "escape", text |-> acc, end |-> i, c |-> s[i + 1]]
  ELSE C15_Scan(s, i + 1, Append(acc, s[i]))

\* What C15 says of the outcome r of Decode for a quoted string that ends as q.
C15_Outcome(s, q, r) ==
  /\ ~r.panic
  /\ (q.how = "closed" /\ q.end = Len(s)) => (r.err.nil /\ r.v = GoString(q.text))
  /\ q.how = "escape" =>
       /\ ~r.err.nil
       /\ ErrTypeOf(r.err) = "InvalidStringEscape"
       /\ ErrArgsOf(r.err) = <<q.c>>
  /\ q.how = "unmatched" =>
       /\ ~r.err.nil
       /\ ErrTypeOf(r.err) = "UnmatchedPair"
       /\ ErrArgsOf(r.err) = <<"'">>

\* C15: quoted-string decoding.  A well-formed quoted string decodes to the
\* content between the quotes with "!!" replaced by "!" and "!'" by "'" and
\* every other byte unchanged; a '!' followed by any other byte fails with
\* InvalidStringEscape, and the end of the input before the closing quote fails
\* with UnmatchedPair for the opener '.
C15_QuotedString ==
  (pc = "Decode" /\ mode = Rison /\ utf8Valid(data) /\ data # <<>> /\ data[1] = "'") =>
    C15_Outcome(data, C15_Scan(data, 2, <<>>), res)

\* The text w is an object with something at its first key position.
C16_HasKey(w) == Len(w) >= 2 /\ w[1] = "(" /\ w[2] \notin {")", ","}

\* What C16 says of the outcome r of a call on an object whose first key was
\* read as k.
C16_FirstKey(k, r) ==
  /\ (~k.panic /\ k.err.nil /\ k.typ # nodeType_string) =>
       (~r.panic /\ ~r.err.nil /\ ErrTypeOf(r.err) = "InvalidTypeOfObjectKey")
  /\ (/\ ~k.panic
      /\ k.err.nil
      /\ k.typ = nodeType_string
      /\ (k.p.index >= Len(k.p.string) \/ At(k.p.string, k.p.index) # ":")) =>
       /\ ~r.panic
       /\ ~r.err.nil
       /\ ErrTypeOf(r.err) = "MissingCharacter"
       /\ ErrArgsOf(r.err) = <<":">>

C17_HasElement(w) == Len(w) >= 3 /\ w[1] = "!" /\ w[2] = "(" /\ w[3] \notin {")", ","}

\* The call r has failed with the kind and the argument ','.
C17_FailsWith(r, kind) ==
  ~r.panic /\ ~r.err.nil /\ ErrTypeOf(r.err) = kind /\ ErrArgsOf(r.err) = <<",">>

\* What C17 says of the outcome r of a call on the array w whose first element
\* was read as t, by the bytes that follow the element.
C17_AfterElement(w, t, r) ==
  (~t.panic /\ t.err.nil /\ t.p.index < Len(w)) =>
    /\ At(w, t.p.index) \notin {",", ")"} => C17_FailsWith(r, "MissingCharacter")
    /\ (/\ At(w, t.p.index) = ","
        /\ t.p.index + 1 < Len(w)
        /\ At(w, t.p.index + 1) = ",") => C17_FailsWith(r, "ExtraCharacter")
    /\ (/\ At(w, t.p.index) = ","
        /\ t.p.index + 1 < Len(w)
        /\ At(w, t.p.index + 1) = ")") => Failed(r)

\* What C17 says of the outcome r of a call on the text w.
C17_Commas(w, m, r) ==
  /\ (Len(w) >= 3 /\ w[1] = "!" /\ w[2] = "(" /\ w[3] = ",") =>
       C17_FailsWith(r, "ExtraCharacter")
  /\ (Len(w) >= 2 /\ w[1] = "(" /\ w[2] = ",") => C17_FailsWith(r, "ExtraCharacter")
  /\ C17_HasElement(w) =>
       C17_AfterElement(w, readValue([NewParser(m) EXCEPT !.string = w, !.index = 2]), r)
  /\ w = <<"(", "a", ":", "1", "b", ":", "2", ")">> => C17_FailsWith(r, "MissingCharacter")
  /\ w = <<"(", "f", "o", "o", ":", "1", ",", ")">> => Failed(r)

\* C17: comma rules.  The elements of an array and the pairs of an object are
\* separated by exactly one ',', with no leading and no trailing comma: a ','
\* found where a value or a key is expected fails with ExtraCharacter(','), and
\* two adjacent elements with no ',' between them fail with
\* MissingCharacter(',').
C17_CommaRules ==
  (pc \in {"Decode", "ToJSON"} /\ utf8Valid(data)) => C17_Commas(Wrap(data, mode), mode, res)

\* Keys and complete values the unclosed objects and arrays are built from.
C18_Keys == {<<"a">>, <<"b">>, <<"f", "o", "o">>, <<"'", "a", "'">>}

C18_Values ==
  {<<"a">>, <<"1">>, <<"t">>, <<"!", "t">>, <<"'", "a", "'">>, <<"(", ")">>, <<"!", "(", ")">>}

\* The texts of an object or array that the end of the input leaves unclosed,
\* by the place where the input ends, each with its opener and with the kind
\* and argument of the error the decoder gives there.
C18_Forms ==
  {[text |-> <<"(">>, opener |-> "(", kind |-> "UnmatchedPair", arg |-> "("],
   [text |-> <<"!", "(">>, opener |-> "!(", kind |-> "UnmatchedPair", arg |-> "!("]}
  \cup {[text |-> <<"(">> \o k, opener |-> "(", kind |-> "MissingCharacter", arg |-> ":"] :
          k \in C18_Keys}
  \cup {[text |-> <<"(">> \o k \o <<":">>, opener |-> "(", kind |-> "EmptyString", arg |-> ""] :
          k \in C18_Keys}
  \cup {[text |-> <<"(">> \o kv[1] \o <<":">> \o kv[2], opener |-> "(",
         kind |-> "UnmatchedPair", arg |-> "("] : kv \in C18_Keys \X C18_Values}
  \cup {[text |-> <<"!", "(">> \o v, opener |-> "!(", kind |-> "UnmatchedPair", arg |-> "!("] :
          v \in C18_Values}
  \cup {[text |-> <<"!", "(">> \o v \o <<",">>, opener |-> "!(", kind |-> "EmptyString",
         arg |-> ""] : v \in C18_Values}

\* What may stand before an unclosed object or array: nothing, or the start of
\* an enclosing object or array up to the place of a value.
C18_Contexts ==
  {<<>>, <<"(", "a", ":">>, <<"!", "(">>, <<"!", "(", "a", ",">>, <<"(", "a", ":", "!", "(">>}

\* The call r failed, and the error at the point of failure has the kind and
\* the argument ("" for none).
C18_FailsAt(r, kind, arg) ==
  /\ ~r.panic
  /\ ~r.err.nil
  /\ ErrTypeOf(Cause(r.err)) = kind
  /\ ErrArgsOf(Cause(r.err)) = (IF arg = "" THEN <<>> ELSE <<arg>>)

\* The message Decode's error renders to for the input "(".
C18_Rendered ==
  (pc = "Decode" /\ mode = Rison /\ data = <<"(">>) =>
    /\ ~res.err.nil
    /\ Error(Typed(res.err)) = "unmatched \"(\" (at the end of string \"(\" -> EOS)"

C19_NoPartialResult ==
  /\ (pc = "ToJSON" /\ ~res.panic /\ ~res.err.nil) => res.jnil
  /\ (pc = "Decode" /\ ~res.panic /\ ~res.err.nil) => res.v = GoNil

\* The bytes of src at the offsets from .. to - 1 that src has, as a string.
C20_Bytes(src, from, to) ==
  Str(SelectSeq([k \in 1 .. Len(src) |-> IF from < k /\ k <= to THEN src[k] ELSE ""],
                LAMBDA b : b # ""))

\* Up to 5 bytes before Pos, the byte at Pos, up to 5 bytes after Pos.
C20_Left(e) == C20_Bytes(e.Src, e.Pos - 5, e.Pos)

C20_Center(e) == C20_Bytes(e.Src, e.Pos, e.Pos + 1)

C20_Right(e) == C20_Bytes(e.Src, e.Pos + 1, e.Pos + 6)

\* The markers of the two sides, in the language t.
C20_MarkLeft(e, t) == IF e.Pos > 5 THEN errPosEllipsisLeft(t) ELSE ""

C20_MarkRight(e, t) == IF e.Pos + 6 < Len(e.Src) THEN errPosEllipsisRight(t) ELSE ""

\* The suffix the claim describes for the error e in the language t.
C20_Suffix(e, t) ==
  LET Form(l, c, r) ==
        IF l = "" /\ c = "" /\ r = "" THEN ""
        ELSE IF l = ""
          THEN IF r = "" THEN errPosFirst(t, c)
               ELSE errPosStart(t, c, r, C20_MarkRight(e, t))
        ELSE IF c = "" THEN errPosEnd(t, C20_MarkLeft(e, t), l)
        ELSE IF r = "" THEN errPosLast(t, C20_MarkLeft(e, t), l, c)
        ELSE errPosNear(t, e.Pos, C20_MarkLeft(e, t), l, c, r, C20_MarkRight(e, t))
  IN  Form(C20_Left(e), C20_Center(e), C20_Right(e))

\* The form chosen for e has a place for the marker of the left side, of the
\* right side.
C20_HasLeftPlace(e) == C20_Left(e) # ""

C20_HasRightPlace(e) ==
  C20_Right(e) # "" /\ (C20_Left(e) = "" \/ C20_Center(e) # "")

\* The message of the kind of e in the language t, before the suffix.
C20_Message(e, t) == errorMessage(t, e.Type, IF e.Args = <<>> THEN "" ELSE e.Args[1])

\* C20: the rendered ParseError is the message of its kind followed by the
\* positional suffix: with left = up to 5 bytes before Pos, center = the byte
\* at Pos and right = up to 5 bytes after Pos, nothing when all three are
\* empty, the "first character" form when left is empty, the "end of string ..
\* -> EOS" form when center is empty, the "last character" form when right is
\* empty, and the "at [Pos] near" form otherwise; the marker of the left side
\* is printed exactly when Pos > 5 and that of the right side exactly when
\* Pos + 6 < len(Src).
C20_PositionalSuffix ==
  pc = "ErrorInLang" =>
    /\ res2.s = C20_Message(res2.e, TableLang(res2.lang))
                  \o C20_Suffix(res2.e, TableLang(res2.lang))
    /\ res2.e.Pos > 5 => C20_HasLeftPlace(res2.e)
    /\ res2.e.Pos + 6 < Len(res2.e.Src) => C20_HasRightPlace(res2.e)

\* C20 is exercised: an error in the middle of a long text has been rendered
\* in the "at [Pos] near" form with the markers of both sides.
C20_Witness ==
  /\ pc = "ErrorInLang"
  /\ res2.lang = "en"
  /\ res2.e.Pos > 5
  /\ res2.e.Pos + 6 < Len(res2.e.Src)
  /\ res2.s = C20_Message(res2.e, "en")
                \o errPosNear("en", res2.e.Pos, ".. ", C20_Left(res2.e), C20_Center(res2.e),
                              C20_Right(res2.e), " ..")

\* The tag is one of the supported languages.
C21_Supported(lang) == lang \in {"en", "ja"}

\* The kind of e has no constant, hence no template.
C21_NoTemplate(e) == \A i \in DOMAIN ErrTypes : ErrTypes[i] # e.Type

C22_Ascii(s) == \A i \in DOMAIN s : Ord(s[i]) <= 127

\* C22: quote round trip.  For every string s of bytes 0..127, unescaping
\* QuoteString(s) as a URL query returns s without an error, and
\* Quote([]byte(s)) holds the bytes of QuoteString(s).
C22_QuoteRoundTrip ==
  C22_Ascii(data) =>
    /\ pc = "QuoteString.QueryUnescape" => (res2.ok /\ res2.s = data)
    /\ pc = "Quote" => res.out = QuoteString(data)

\* C22 is exercised: the string "%20" has been quoted to "%2520" and unescaped
\* to itself.
C22_Witness ==
  /\ pc = "QuoteString.QueryUnescape"
  /\ data = <<"%", "2", "0">>
  /\ res.out = <<"%", "2", "5", "2", "0">>
  /\ res2.ok
  /\ res2.s = data

\* The characters QuoteString leaves as they are.
C23_Kept ==
  {"~", "!", "*", "(", ")", "-", "_", ".", ",", ":", "@", "$", "'", "/"}
    \cup {Chr(n) : n \in (48 .. 57) \cup (65 .. 90) \cup (97 .. 122)}

\* The hexadecimal digit of n, in upper case.
C23_Hex(n) == IF n < 10 THEN Chr(48 + n) ELSE Chr(55 + n)

\* What C23 says QuoteString emits for the byte c.
C23_Image(c) ==
  IF c \in C23_Kept THEN <<c>>
  ELSE IF c = " " THEN <<"+">>
  ELSE <<"%", C23_Hex(Ord(c) \div 16), C23_Hex(Ord(c) % 16)>>

RECURSIVE C23_Images(_)
C23_Images(s) == IF s = <<>> THEN <<>> ELSE C23_Image(s[1]) \o C23_Images(Tail(s))

\* C23: the output alphabet of QuoteString.  Each of ~ ! * ( ) - _ . , : @ $ '
\* / and every ASCII letter and digit is emitted unchanged, a space as '+',
\* every other byte as its %XX escape, and nothing else is rewritten: the
\* output is the images of the bytes in order.
C23_OutputAlphabet ==
  pc = "QuoteString" => res.out = C23_Images(data)

\* C23 is exercised: the characters of ExampleQuote have been quoted as the
\* example prints them.
C23_Witness ==
  /\ pc = "QuoteString"
  /\ Len(data) = 33
  /\ data[1] = "~"
  /\ res.out = <<"~", "!", "*", "(", ")", "-", "_", ".", ",", ":", "@", "$", "'", "/", "+",
                 "%", "2", "2", "%", "2", "3", "%", "2", "5", "%", "2", "6", "%", "2", "B",
                 "%", "3", "B", "%", "3", "C", "%", "3", "D", "%", "3", "E", "%", "3", "F",
                 "%", "5", "B", "%", "5", "C", "%", "5", "D", "%", "5", "E", "%", "6", "0",
                 "%", "7", "B", "%", "7", "C", "%", "7", "D">>

\* The paths of the values of v the encoder cannot write, from the steps
\* '.key' and '[index]': a func, a uintptr, and a map with a key that is not
\* a string.
RECURSIVE C24_Paths(_)
C24_Paths(v) ==
  CASE v.k \in {"func", "uintptr"} -> {<<>>}
    [] v.k \in {"map[int]", "map[float64]"} -> IF DOMAIN v.v = {} THEN {} ELSE {<<>>}
    [] v.k = "slice" ->
         UNION {{<<"[">> \o IntText(i - 1, 1) \o <<"]">> \o p : p \in C24_Paths(v.v[i])} :
                  i \in DOMAIN v.v}
    [] v.k = "map" ->
         UNION {{<<".">> \o x \o p : p \in C24_Paths(v.v[x])} : x \in DOMAIN v.v}
    [] OTHER -> {}

\* The path as an error prints it: '.' for the root.
C24_Shown(p) == IF p = <<>> THEN <<".">> ELSE p

\* The paths an error of the encoder names: those of the non-encodable values
\* it reports, one inside the other.
RECURSIVE C24_Named(_)
C24_Named(err) ==
  IF err.nil \/ "args" \notin DOMAIN err
       \/ err.format # "non-encodable %s value at %s in %+v: %s"
    THEN {}
    ELSE {err.args[2]} \cup C24_Named(err.args[3])

\* C24: non-encodable input.  Encoding a value that holds, at any depth, a map
\* key that is not a string or a value of an unsupported kind returns an error
\* and no output, and the error names the path of the offending value.
C24_NonEncodable ==
  /\ (pc = "Encode" /\ C24_Paths(value) # {}) =>
       /\ ~res.err.nil
       /\ res.outnil
       /\ \E p \in C24_Paths(value) : C24_Shown(p) \in C24_Named(res.err)
  /\ (pc = "encodeValue" /\ C24_Paths(value) # {}) =>
       /\ ~res.err.nil
       /\ \E p \in C24_Paths(value) : C24_Shown(p) \in C24_Named(res.err)

\* C27: the ParseError a failed decode returns is the one made at the first
\* grammar violation, with its kind and its position; no enclosing parser has
\* put an error of its own in its place.
C27_NoRewrapping ==
  (pc \in {"ToJSON", "Decode"} /\ ~res.panic /\ ~res.err.nil /\ "Err" \in DOMAIN res.err)
    => /\ res.err = Cause(res.err)
       /\ ErrTypeOf(res.err) = ErrTypeOf(Cause(res.err))
       /\ res.err.Pos = Cause(res.err).Pos

\* The bytes put before the input.
C28_Shift(m) == CASE m = ORison -> 1 [] m = ARison -> 2 [] OTHER -> 0

\* The error of the call on s in the mode m against the error of the call on
\* the wrapped text in the mode Rison.
C28_Relative(e, w, s, m) ==
  /\ ~w.panic
  /\ ~w.err.nil
  /\ e.Src = s
  /\ e.Pos = w.err.Pos - C28_Shift(m)

\* C28: a ParseError of a decode in the mode ORison or ARison has the input as
\* Src, and as Pos the offset reported for the same failure of the wrapped
\* text in the mode Rison less the length of what was put before the input.
C28_UnwrappedPositions ==
  (pc \in {"ToJSON", "Decode"} /\ mode \in {ORison, ARison} /\ ~res.panic /\ ~res.err.nil)
    => C28_Relative(res.err, ToJSON(Wrap(data, mode), Rison), data, mode)

\* C29: the position of every ParseError a decode returns lies within its
\* source: 0 <= Pos <= len(Src).
C29_PositionBounds ==
  (pc \in {"ToJSON", "Decode"} /\ ~res.panic /\ ~res.err.nil /\ "Err" \in DOMAIN res.err)
    => /\ 0 <= res.err.Pos
       /\ res.err.Pos <= Len(res.err.Src)

(***************************************************************************)
(* Objects with repeated keys.  Under SpecDup value holds the pairs of an  *)
(* object in the order of its text, each a key and a value as written, and *)
(* data the text of the object in the mode.                                *)
(***************************************************************************)

\* Most pairs of an object with repeated keys.
MaxPairs == 3

\* Keys as written, with the key read: a and 'a' are the same key.
DupKeys ==
  {[text |-> <<"a">>, key |-> <<"a">>],
   [text |-> <<"'", "a", "'">>, key |-> <<"a">>],
   [text |-> <<"b">>, key |-> <<"b">>]}

\* Values as written, with their JSON and the Go value of it; the last is an
\* object with a repeated key of its own.
DupValues ==
  {[text |-> <<"1">>, json |-> <<"1">>, go |-> GoFloat(ParseFloat(<<"1">>).f)],
   [text |-> <<"'", "x", "'">>, json |-> <<"\"", "x", "\"">>, go |-> GoString(<<"x">>)],
   [text |-> <<"(", "a", ":", "1", ",", "a", ":", "!", "n", ")">>,
    json |-> <<"{", "\"", "a", "\"", ":", "1", ",", "\"", "a", "\"", ":", "n", "u", "l", "l", "}">>,
    go |-> GoMap([key \in {<<"a">>} |-> GoNil])]}

DupPairs == {[k |-> k, v |-> v] : k \in DupKeys, v \in DupValues}

\* The pairs as Rison text, without the parentheses around them.
RECURSIVE DupText(_)
DupText(pairs) ==
  IF pairs = <<>> THEN <<>>
  ELSE (IF Len(pairs) = 1 THEN <<>> ELSE DupText(SubSeq(pairs, 1, Len(pairs) - 1)) \o <<",">>)
         \o pairs[Len(pairs)].k.text \o <<":">> \o pairs[Len(pairs)].v.text

\* The object of the pairs as the text a caller writes in the mode m: the
\* object itself, its pairs alone, or the object as the one element.
DupInput(pairs, m) ==
  IF m = ORison THEN DupText(pairs) ELSE <<"(">> \o DupText(pairs) \o <<")">>

\* The caller holds the text of an object in one of the modes.
InitDup ==
  /\ pc = "start"
  /\ mode \in Modes
  /\ value \in UNION {[1 .. n -> DupPairs] : n \in 1 .. MaxPairs}
  /\ data = DupInput(value, mode)
  /\ seed = 0
  /\ res = None
  /\ res2 = None

NextDup == CallDecode \/ CallToJSON

SpecDup == InitDup /\ [][NextDup]_vars

\* Some key is written more than once.
C30_Repeats == \E i, j \in DOMAIN value : i < j /\ value[i].k.key = value[j].k.key

\* Every pair in the order of the text, as JSON.
RECURSIVE C30_AllPairs(_)
C30_AllPairs(pairs) ==
  IF pairs = <<>> THEN <<>>
  ELSE (IF Len(pairs) = 1 THEN <<>> ELSE C30_AllPairs(SubSeq(pairs, 1, Len(pairs) - 1)) \o <<",">>)
         \o <<"\"">> \o pairs[Len(pairs)].k.key \o <<"\"", ":">> \o pairs[Len(pairs)].v.json

\* The place of the last pair with the key.
C30_Last(pairs, key) ==
  CHOOSE i \in DOMAIN pairs :
    /\ pairs[i].k.key = key
    /\ \A j \in DOMAIN pairs : pairs[j].k.key = key => j <= i

\* The map from each key to the value of its last pair.
C30_LastWins(pairs) ==
  GoMap([key \in {pairs[i].k.key : i \in DOMAIN pairs} |-> pairs[C30_Last(pairs, key)].v.go])

\* C30: an object text with a repeated key decodes without error; ToJSON
\* writes every pair in the order of the text, and Decode returns a map that
\* gives each key the value of its last pair.
C30_DuplicateKeys ==
  C30_Repeats =>
    /\ pc = "ToJSON" =>
         /\ ~res.panic
         /\ res.err.nil
         /\ res.j = (IF mode = ARison THEN <<"[">> ELSE <<>>)
                      \o <<"{">> \o C30_AllPairs(value) \o <<"}">>
                      \o (IF mode = ARison THEN <<"]">> ELSE <<>>)
    /\ pc = "Decode" =>
         /\ ~res.panic
         /\ res.err.nil
         /\ res.v = (IF mode = ARison THEN GoSlice(<<C30_LastWins(value)>>)
                     ELSE C30_LastWins(value))

\* Decode has returned the map of an object whose text has the key a three
\* times, with different values.
C30_Witness ==
  /\ pc = "Decode"
  /\ Len(value) = 3
  /\ \A i \in 1 .. 3 : value[i].k.key = <<"a">>
  /\ value[1].v # value[3].v
  /\ value[2].v # value[3].v
  /\ res.err.nil
  /\ res.v.k = "map"
  /\ DOMAIN res.v.v = {<<"a">>}
  /\ res.v.v[<<"a">>] = value[3].v.go
=============================================================================
